---- MODULE Spec2Model ----
(***************************************************************************)
(* Model of the session and tool-dispatch layer of mcp-weather-chat.       *)
(*                                                                         *)
(* Part 1: the Chat Gateway's MCP client (server.js: mcpSessionId,         *)
(*         initializeMCPSession, callMCPTool) against a provider whose     *)
(*         answers are nondeterministic.                                   *)
(* Part 2: the tool dispatcher (WeatherMCPServer.callTool and the          *)
(*         tools/call handler), its handlers, WeatherService and its       *)
(*         response cache.                                                 *)
(***************************************************************************)
EXTENDS Integers, Sequences, FiniteSets, TLC

(***************************************************************************)
(* Bounds of the model                                                     *)
(***************************************************************************)
\* session ids the provider may issue in one behaviour
MaxIds == 3
\* tools/call requests one callMCPTool invocation may send before the model
\* stops answering 400 (the code itself has no such limit)
MaxSends == 3
\* callMCPTool invocations per gateway task
MaxCalls == 2

(***************************************************************************)
(* Part 1 - Chat Gateway MCP client                                        *)
(***************************************************************************)
VARIABLES
  mcpSessionId,   \* the gateway's stored session id (module-level let)
  calls,          \* per task: the callMCPTool invocation it is running
  ncalls,         \* per task: number of invocations started
  nextId,         \* provider: next session id it will issue
  everRejected,   \* history: some tools/call was answered with HTTP 400
  hsTotal,        \* history: initialize requests sent
  hsStored,       \* history: handshakes whose response stored a session id
  usedIds         \* history: session ids carried by tools/call requests

gatewayVars == <<mcpSessionId, calls, ncalls, nextId, everRejected, hsTotal, hsStored, usedIds>>

\* JavaScript null and undefined; both are falsy
NULL == <<"null">>
UNDEFINED == <<"undefined">>
\* a tools/call request sent without an mcp-session-id header
NOHEADER == <<"no-header">>

Tasks == {"A", "B"}
SeqTasks == {"A"}

\* the opaque ids the provider issues, in the order it issues them
Sid(i) == <<"sid", i>>
SessionIds == {Sid(i) : i \in 1..MaxIds}

Truthy(v) == v \notin {NULL, UNDEFINED}

\* a callMCPTool invocation that has not started
IdleCall == [pc |-> "idle", sent |-> 0, hs |-> 0, rej |-> 0, reinits |-> 0,
             startSid |-> NULL, firstSid |-> NOHEADER, reqSid |-> NOHEADER,
             answer |-> "none", initFailed |-> FALSE, outcome |-> "none"]

\* initializeMCPSession line 33: `if (mcpSessionId) return mcpSessionId`
NeedsHandshake_Always(sid) == TRUE
NeedsHandshake(sid) == ~Truthy(sid)

\* callMCPTool lines 90-109: build the headers and post tools/call
SendToolsCall(c, sid) ==
  LET hdr == IF Truthy(sid) THEN sid ELSE NOHEADER
  IN [c EXCEPT !.pc = "awaitCall",
               !.sent = @ + 1,
               !.reqSid = hdr,
               !.firstSid = IF c.sent = 0 THEN hdr ELSE @]

\* callMCPTool lines 86-109 with initializeMCPSession lines 33-57, up to the
\* first network await, entered while the stored id is sid
EnterCall(c, sid) ==
  IF NeedsHandshake(sid)
  THEN [c EXCEPT !.pc = "awaitInit", !.hs = @ + 1]
  ELSE SendToolsCall(c, sid)

\* callMCPTool line 155: the stored id after a 400 answer
SessionAfterReject_Keep(sid) == sid
SessionAfterReject(sid) == NULL

\* callMCPTool lines 160-166: an error that is not an HTTP 400 answer is
\* rethrown to the caller
Rethrow_Retry(c) == SendToolsCall(c, mcpSessionId)
Rethrow(c) == [c EXCEPT !.pc = "done", !.outcome = "error"]

\* history of the request that a step which leaves the invocation as c2 sent
HistoryOfSend(c2) ==
  /\ usedIds' = IF c2.pc = "awaitCall" THEN usedIds \cup {c2.reqSid} ELSE usedIds
  /\ hsTotal' = IF c2.pc = "awaitInit" THEN hsTotal + 1 ELSE hsTotal

\* a request handler (or a test) invokes callMCPTool(toolName, args)
StartCall(t) ==
  /\ calls[t].pc \in {"idle", "done"}
  /\ ncalls[t] < MaxCalls
  /\ LET c2 == EnterCall([IdleCall EXCEPT !.startSid = mcpSessionId], mcpSessionId)
     IN /\ calls' = [calls EXCEPT ![t] = c2]
        /\ HistoryOfSend(c2)
  /\ ncalls' = [ncalls EXCEPT ![t] = @ + 1]
  /\ UNCHANGED <<mcpSessionId, nextId, everRejected, hsStored>>

\* the initialize request fails (no response, or a non-2xx status): axios
\* throws inside initializeMCPSession, which rethrows 'Failed to connect to
\* MCP server'; callMCPTool's catch rethrows it as 'Request error: ...'
InitializeFails(t) ==
  /\ calls[t].pc = "awaitInit"
  /\ calls' = [calls EXCEPT ![t] = Rethrow([@ EXCEPT !.initFailed = TRUE])]
  /\ UNCHANGED <<mcpSessionId, ncalls, nextId, everRejected, hsTotal, hsStored, usedIds>>

\* the initialize request is answered 2xx; hdr is the mcp-session-id response
\* header (a fresh id, or absent), bodyOk tells whether the body is an SSE
\* message whose data line carries a result
InitializeResponds(t, hdr, bodyOk) ==
  /\ calls[t].pc = "awaitInit"
  /\ hdr \in {Sid(nextId), UNDEFINED}
  /\ hdr = Sid(nextId) => nextId <= MaxIds
  /\ mcpSessionId' = hdr
  /\ nextId' = IF hdr = Sid(nextId) THEN nextId + 1 ELSE nextId
  /\ hsStored' = IF Truthy(hdr) THEN hsStored + 1 ELSE hsStored
  /\ LET c2 == IF bodyOk
               THEN SendToolsCall(calls[t], hdr)
               ELSE Rethrow([calls[t] EXCEPT !.initFailed = TRUE])
     IN /\ calls' = [calls EXCEPT ![t] = c2]
        /\ HistoryOfSend(c2)
  /\ UNCHANGED <<ncalls, everRejected>>

ToolsCallAnswers == {"result", "rpcError", "badBody", "status400", "statusOther", "noResponse"}

\* the tools/call request is settled by the provider
ToolsCallResponds(t, r) ==
  /\ calls[t].pc = "awaitCall"
  /\ r \in ToolsCallAnswers
  /\ IF r = "status400"
     THEN \* lines 153-158: reset the stored id and call callMCPTool again
          /\ calls[t].sent < MaxSends
          /\ mcpSessionId' = SessionAfterReject(mcpSessionId)
          /\ everRejected' = TRUE
          /\ LET c1 == [calls[t] EXCEPT !.rej = @ + 1, !.answer = r]
                 c2 == EnterCall(c1, mcpSessionId')
                 c3 == [c2 EXCEPT !.reinits = IF c2.pc = "awaitInit" THEN @ + 1 ELSE @]
             IN /\ calls' = [calls EXCEPT ![t] = c3]
                /\ HistoryOfSend(c3)
     ELSE /\ calls' = [calls EXCEPT ![t] =
                 IF r = "result"
                 THEN [@ EXCEPT !.pc = "done", !.answer = r, !.outcome = "result"]
                 ELSE Rethrow([@ EXCEPT !.answer = r])]
          /\ UNCHANGED <<mcpSessionId, everRejected, usedIds, hsTotal>>
  /\ UNCHANGED <<ncalls, nextId, hsStored>>

GatewayInit ==
  /\ mcpSessionId = NULL
  /\ calls = [t \in Tasks |-> IdleCall]
  /\ ncalls = [t \in Tasks |-> 0]
  /\ nextId = 1
  /\ everRejected = FALSE
  /\ hsTotal = 0
  /\ hsStored = 0
  /\ usedIds = {}

GatewayStep(t) ==
  \/ StartCall(t)
  \/ InitializeFails(t)
  \/ \E hdr \in SessionIds \cup {UNDEFINED}, bodyOk \in BOOLEAN : InitializeResponds(t, hdr, bodyOk)
  \/ \E r \in ToolsCallAnswers : ToolsCallResponds(t, r)

(***************************************************************************)
(* Part 2 - tool dispatcher, handlers, WeatherService and response cache   *)
(***************************************************************************)
VARIABLES
  cache,          \* WeatherService.cache: key -> [data, timestamp]
  heap,           \* forecast result objects, shared by reference between
                  \* the cache and the calls that hold them
  now,            \* Date.now()
  nticks,         \* clock advances taken
  claudeService,  \* TRUE iff the ClaudeService constructor succeeded
  tool,           \* per task: the tools/call it is serving
  ntool,          \* tool calls started
  prev,           \* history: summary of the tool call completed before the
                  \* current one
  cleared         \* history: clearCache ran since the current call started
                  \* (cur), or between the start of the previous call and
                  \* the start of the current one (prev)

toolVars == <<cache, heap, now, nticks, claudeService, tool, ntool, prev, cleared>>

\* clock advances in one behaviour
MaxTicks == 2
\* tool calls in one behaviour of the cache scenario
MaxToolCalls == 3
\* tool calls in one behaviour of the dispatcher scenario
MaxDispatchCalls == 2
\* tool calls in one behaviour of the scenario with two calls in flight
MaxConcurrentCalls == 2

\* weather-service.js line 17
cacheTimeout == 10 * 60 * 1000
\* weather-service.js line 29: geocoding entries live six times longer
geocodeTimeout_Short == cacheTimeout
geocodeTimeout == cacheTimeout * 6
\* the amounts of time that pass between two steps of the model
TickSteps == {cacheTimeout \div 2, geocodeTimeout}

ToolTasks == {"T"}
\* the tasks of the scenario in which two tool calls are in flight at once
ConcurrentTasks == {"T", "U"}

\* JavaScript values of tool arguments
Str(s) == <<"string", s>>
Num(n) == <<"number", n>>

\* template-literal interpolation `${v}`
ToStr(v) ==
  IF v = UNDEFINED THEN "undefined"
  ELSE IF v = NULL THEN "null"
  ELSE IF v[1] = "number" THEN ToString(v[2])
  ELSE v[2]

Cities == {"Paris", "Oslo"}
Readings == {"clear", "rain"}

NoLocation == [kind |-> "none", name |-> "", latitude |-> 0, longitude |-> 0]

\* the first result of the geocoding endpoint for a city name it knows
LocationOf(city) ==
  [kind |-> "geocoded", name |-> city,
   latitude |-> IF city = "Paris" THEN 48 ELSE 59,
   longitude |-> IF city = "Paris" THEN 2 ELSE 10]

\* handleGetWeatherByCoords: the mock location written into the weather data
MockLocation(latitude, longitude) ==
  [kind |-> "mock", name |-> "Location", latitude |-> latitude, longitude |-> longitude]

\* weather-service.js lines 80-89: the forecast request names no
\* temperature_unit, so the endpoint answers in its default unit
RequestedUnits == "celsius"

\* answers of the geocoding endpoint: a failure, or a result list
GeocodeAnswers(city) ==
  {[ok |-> FALSE, results |-> <<>>], [ok |-> TRUE, results |-> <<>>]}
    \cup (IF city \in {Str(c) : c \in Cities}
          THEN {[ok |-> TRUE, results |-> <<LocationOf(city[2])>>]} ELSE {})

\* weather-service.js lines 24 and 69: the cache keys
GeocodeKey(city, count) == <<"geocode", ToStr(city), ToStr(count)>>
ForecastKey(latitude, longitude, days) ==
  <<"forecast", ToStr(latitude), ToStr(longitude), ToStr(days)>>

\* weather-service.js lines 29 and 74: `Date.now() - cached.timestamp < ttl`
IsFresh_Inclusive(age, ttl) == age <= ttl
IsFresh(age, ttl) == age < ttl

\* weather-service.js lines 27-32 / 72-77: a cache lookup at time `at`
CacheLookup(C, key, ttl, at) ==
  IF key \in DOMAIN C
  THEN [present |-> TRUE, age |-> at - C[key].timestamp,
        hit |-> IsFresh(at - C[key].timestamp, ttl), data |-> C[key].data]
  ELSE [present |-> FALSE, age |-> 0, hit |-> FALSE, data |-> <<>>]

\* weather-service.js lines 54-57 / 139-142: this.cache.set(cacheKey, ...)
CacheSet_Dropped(C, key, data, at) == C
CacheSet(C, key, data, at) ==
  [k \in DOMAIN C \cup {key} |->
     IF k = key THEN [data |-> data, timestamp |-> at] ELSE C[k]]

\* the object id the next `const result = {...}` of getWeatherForecast gets
NewObj(H) == CHOOSE i \in 1..(Cardinality(DOMAIN H) + 1) : i \notin DOMAIN H


EmptyMap == [k \in {} |-> 0]

\* a forecast result object before any location is written into it
NoData == [reading |-> "none", units |-> "none", fetchedAt |-> 0, location |-> NoLocation]

\* a tools/call whose arguments member is absent
NoArgs == [present |-> TRUE, city |-> UNDEFINED, days |-> UNDEFINED,
           latitude |-> UNDEFINED, longitude |-> UNDEFINED, count |-> UNDEFINED,
           question |-> UNDEFINED]
MISSING == [NoArgs EXCEPT !.present = FALSE]

NoResult == [content |-> <<>>, isError |-> FALSE, weatherData |-> NoData]

\* a tool call that has not started
IdleTool ==
  [pc |-> "idle", impl |-> "none", name |-> "", handler |-> "none",
   args |-> MISSING, city |-> UNDEFINED, count |-> UNDEFINED,
   latitude |-> UNDEFINED, longitude |-> UNDEFINED, days |-> UNDEFINED,
   includeForecast |-> FALSE, location |-> NoLocation, obj |-> 0,
   response |-> <<>>, startedAt |-> 0,
   geoFetch |-> 0, fcFetch |-> 0,
   geoLook |-> "none", geoAge |-> 0, geoTs |-> 0,
   fcLook |-> "none", fcAge |-> 0, fcTs |-> 0,
   useFahrenheit |-> FALSE, claude |-> 0, claudeOk |-> "none", gotData |-> FALSE,
   error |-> <<>>, listed |-> <<>>, located |-> -1, result |-> NoResult]

TextBlock(text) == [type |-> "text", text |-> text]

\* how a lookup is remembered in the call's record
LookKind(look) ==
  IF look.hit THEN "hit" ELSE IF look.present THEN "stale" ELSE "absent"

\* weather-service.js lines 193-229 and 234-271: the template renderings
formatCurrentWeatherForChat(data) ==
  <<"**Current Weather in ", data.location.name, "**", " Temperature: ", data.reading, " C">>
formatForecastForChat(data) ==
  <<"**7-Day Weather Forecast for ", data.location.name, "**", " ", data.reading, " C">>

\* the handler (or the dispatcher) returns a result to the transport
Complete_ErrorWithoutContent(c, H, text, isError, data) ==
  [c |-> [c EXCEPT !.pc = "done", !.obj = 0, !.response = <<>>,
                   !.result = [content |-> IF isError THEN <<>> ELSE <<TextBlock(text)>>,
                               isError |-> isError, weatherData |-> data]],
   H |-> H]
Complete(c, H, text, isError, data) ==
  [c |-> [c EXCEPT !.pc = "done", !.obj = 0, !.response = <<>>,
                   !.result = [content |-> <<TextBlock(text)>>,
                               isError |-> isError, weatherData |-> data]],
   H |-> H]

\* the structured payload a handler attaches: part_004 / real-mcp-server.js
\* return weatherData, the registerTool handlers of part_003 return content only
Payload(c, H, obj) ==
  IF c.impl = "callTool" /\ obj # 0 THEN H[obj] ELSE NoData

\* an exception is raised inside the handler that is running.
\* callTool (part_004 lines 175-185, real-mcp-server.js lines 176-186) catches
\* it at the dispatcher; the handlers of part_003 catch it themselves
\* (lines 511-521, 564-574, 622-632, 772-782).
HandlerThrows_Escapes(c, H, msg) ==
  [c |-> [c EXCEPT !.pc = "threw", !.error = msg], H |-> H]
HandlerThrows(c, H, msg) ==
  LET c1 == [c EXCEPT !.error = msg]
  IN IF c.impl = "callTool"
     THEN Complete(c1, H, <<"Error calling tool ", c.name, ": ">> \o msg, TRUE, NoData)
     ELSE IF c.handler = "handleGeocodeCity"
     THEN Complete(c1, H, <<"Error geocoding ", ToStr(c.city), ": ">> \o msg, TRUE, NoData)
     ELSE Complete(c1, H, <<"Error: ">> \o msg, TRUE, NoData)

\* getWeatherForChat returned {error: true, message}
ChatError(c, H, msg) ==
  IF c.handler = "handleWeatherQuestion"
  THEN \* part_004 lines 330-333: no weather context, go on to the question
       [c |-> [c EXCEPT !.pc = "claude", !.claude = @ + 1, !.obj = 0], H |-> H]
  ELSE IF c.impl = "callTool"
  THEN \* part_004 lines 194-196 / 230-232: throw new Error(result.message)
       HandlerThrows(c, H, msg)
  ELSE \* part_003 lines 478-488 / 531-541
       Complete(c, H,
                <<IF c.handler = "handleGetForecast"
                  THEN "Error getting forecast for " ELSE "Error getting weather for ",
                  ToStr(c.city), ": ">> \o msg,
                TRUE, NoData)

\* getWeatherForChat lines 174-181 and what its caller does next
ChatData(c, H, obj) ==
  LET H2 == [H EXCEPT ![obj].location = c.location]
      response == IF c.includeForecast THEN formatForecastForChat(H2[obj])
                  ELSE formatCurrentWeatherForChat(H2[obj])
  IN IF c.handler = "handleWeatherQuestion" \/ claudeService
     THEN [c |-> [c EXCEPT !.pc = "claude", !.claude = @ + 1, !.obj = obj,
                          !.response = response], H |-> H2]
     ELSE Complete(c, H2, response, FALSE, Payload(c, H2, obj))

\* getWeatherForecast returned the object obj to its caller
AfterForecast(c0, H, obj) ==
  LET c == [c0 EXCEPT !.gotData = TRUE]
  IN
  IF c.handler = "handleGetWeatherByCoords"
  THEN IF c.latitude = UNDEFINED \/ c.longitude = UNDEFINED
       THEN \* latitude.toFixed(2) on undefined, before anything is assigned
            HandlerThrows(c, H, <<"Cannot read properties of undefined (reading 'toFixed')">>)
       ELSE LET H2 == [H EXCEPT ![obj].location = MockLocation(c.latitude[2], c.longitude[2])]
                response == IF c.days = Num(1) THEN formatCurrentWeatherForChat(H2[obj])
                            ELSE formatForecastForChat(H2[obj])
            IN IF claudeService
               THEN [c |-> [c EXCEPT !.pc = "claude", !.claude = @ + 1, !.obj = obj,
                          !.response = response], H |-> H2]
               ELSE Complete(c, H2, response, FALSE, Payload(c, H2, obj))
  ELSE ChatData(c, H, obj)

\* getWeatherForecast threw (weather-service.js line 146)
ForecastFails(c, H) ==
  LET msg == <<"Failed to get forecast for coordinates ", ToStr(c.latitude), ", ",
               ToStr(c.longitude), ": ", "network error">>
  IN IF c.handler = "handleGetWeatherByCoords"
     THEN HandlerThrows(c, H, msg)
     ELSE ChatError(c, H, msg)

\* WeatherService.getWeatherForecast, lines 68-89, up to the request
getWeatherForecast(c, H, C, latitude, longitude, days) ==
  LET look == CacheLookup(C, ForecastKey(latitude, longitude, days), cacheTimeout, now)
      c1 == [c EXCEPT !.latitude = latitude, !.longitude = longitude, !.days = days,
                      !.fcLook = LookKind(look), !.fcAge = look.age,
                      !.fcTs = IF look.present THEN now - look.age ELSE 0]
  IN IF look.hit
     THEN AfterForecast(c1, H, look.data)
     ELSE [c |-> [c1 EXCEPT !.pc = "forecast", !.fcFetch = @ + 1], H |-> H]

\* geocodeCity returned the list locs to its caller
AfterLocations_NoCheck(c0, H, C, locs) ==
  getWeatherForecast([c0 EXCEPT !.located = Len(locs)], H, C, Num(0), Num(0), Num(1))
AfterLocations(c0, H, C, locs) ==
  LET c == [c0 EXCEPT !.located = Len(locs)]
  IN
  IF c.handler = "handleGeocodeCity"
  THEN \* part_004 lines 375-404
       Complete(c, H,
                <<"**Geocoding results for \"", ToStr(c.city), "\":**">>
                  \o (IF Len(locs) = 0 THEN <<"No locations found.">> ELSE <<locs[1].name>>),
                FALSE, NoData)
  ELSE \* getWeatherForChat lines 158-172
       IF Len(locs) = 0
       THEN ChatError(c, H, <<"Could not find location for \"", ToStr(c.city),
                              "\". Please check the city name and try again.">>)
       ELSE getWeatherForecast([c EXCEPT !.location = locs[1]], H, C,
                               Num(locs[1].latitude), Num(locs[1].longitude),
                               Num(IF c.includeForecast THEN 7 ELSE 1))

\* geocodeCity threw (weather-service.js line 61)
GeocodeFails(c, H) ==
  LET msg == <<"Failed to geocode ", ToStr(c.city), ": ", "network error">>
  IN IF c.handler = "handleGeocodeCity"
     THEN HandlerThrows(c, H, msg)
     ELSE ChatError(c, H, msg)

\* WeatherService.geocodeCity, lines 23-40, up to the request
geocodeCity(c, H, C, city, count) ==
  LET look == CacheLookup(C, GeocodeKey(city, count), geocodeTimeout, now)
      c1 == [c EXCEPT !.city = city, !.count = count,
                      !.geoLook = LookKind(look), !.geoAge = look.age,
                      !.geoTs = IF look.present THEN now - look.age ELSE 0]
  IN IF look.hit
     THEN AfterLocations(c1, H, C, look.data)
     ELSE [c |-> [c1 EXCEPT !.pc = "geocode", !.geoFetch = @ + 1], H |-> H]

\* WeatherService.getWeatherForChat(city, includeForecast), lines 153-156
getWeatherForChat(c, H, C, city, includeForecast) ==
  geocodeCity([c EXCEPT !.includeForecast = includeForecast], H, C, city, Num(1))

\* a default parameter value: used when the argument is undefined
Default(v, d) == IF v = UNDEFINED THEN d ELSE v

handleGetWeather(c, H, C, city) ==
  getWeatherForChat([c EXCEPT !.handler = "handleGetWeather"], H, C, city, FALSE)

handleGetForecast(c, H, C, city, days) ==
  getWeatherForChat([c EXCEPT !.handler = "handleGetForecast"], H, C, city, TRUE)

handleGetWeatherByCoords(c, H, C, latitude, longitude, days) ==
  getWeatherForecast([c EXCEPT !.handler = "handleGetWeatherByCoords"], H, C,
                     latitude, longitude, Default(days, Num(1)))

handleGeocodeCity(c, H, C, city, count) ==
  geocodeCity([c EXCEPT !.handler = "handleGeocodeCity"], H, C, city, Default(count, Num(1)))

NoClaudeText ==
  <<"I'd be happy to help with weather questions! However, AI analysis is not available right now. Try asking about specific weather data for a city.">>

\* part_004 lines 312-341 (real-mcp-server.js lines 315-344)
handleWeatherQuestion(c, H, C, question, city) ==
  LET c1 == [c EXCEPT !.handler = "handleWeatherQuestion", !.city = Default(city, NULL)]
  IN IF ~claudeService
     THEN Complete(c1, H, NoClaudeText, FALSE, NoData)
     ELSE IF Truthy(c1.city)
     THEN getWeatherForChat(c1, H, C, city, FALSE)
     ELSE [c |-> [c1 EXCEPT !.pc = "claude", !.claude = @ + 1], H |-> H]

\* WeatherMCPServer.listTools (part_004 lines 51-149): the advertised names
\* (the tools/list handler of real-mcp-server.js, lines 47-148, returns the
\* same names in the same order)
listTools_Duplicate == <<"get_weather", "get_weather", "get_forecast",
                         "get_weather_by_coords", "ask_weather_question">>
listTools == <<"get_weather", "get_forecast", "get_weather_by_coords",
               "geocode_city", "ask_weather_question">>

\* the case labels of the switch in callTool (part_004 lines 156-174)
ToolNames_WithUnknown == {"get_weather", "get_forecast", "get_weather_by_coords",
                          "geocode_city", "ask_weather_question", "nonexistent_tool_xyz"}
ToolNames == {"get_weather", "get_forecast", "get_weather_by_coords",
              "geocode_city", "ask_weather_question"}

\* the first property callTool reads from args for each tool
FirstArg(name) ==
  IF name = "get_weather_by_coords" THEN "latitude"
  ELSE IF name = "ask_weather_question" THEN "question"
  ELSE "city"

\* WeatherMCPServer.callTool (part_004 lines 154-186) and the tools/call
\* handler of real-mcp-server.js (lines 153-187), up to the first request
callTool(c0, H, C, toolName, args) ==
  LET c == [c0 EXCEPT !.impl = "callTool", !.name = toolName, !.args = args]
  IN IF toolName \notin ToolNames
     THEN HandlerThrows(c, H, <<"Unknown tool: ", toolName>>)
     ELSE IF ~args.present
     THEN HandlerThrows(c, H, <<"Cannot read properties of undefined (reading '",
                                FirstArg(toolName), "')">>)
     ELSE IF toolName = "get_weather" THEN handleGetWeather(c, H, C, args.city)
     ELSE IF toolName = "get_forecast" THEN handleGetForecast(c, H, C, args.city, args.days)
     ELSE IF toolName = "get_weather_by_coords"
     THEN handleGetWeatherByCoords(c, H, C, args.latitude, args.longitude, args.days)
     ELSE IF toolName = "geocode_city" THEN handleGeocodeCity(c, H, C, args.city, args.count)
     ELSE handleWeatherQuestion(c, H, C, args.question, args.city)


(***************************************************************************)
(* RealMCPWeatherServer (part_003): the tools registered with the MCP SDK. *)
(* Question texts are sequences of characters.                             *)
(***************************************************************************)

LowerCase == <<"a", "b", "c", "d", "e", "f", "g", "h", "i", "j", "k", "l", "m", "n", "o", "p", "q", "r", "s", "t", "u", "v", "w", "x", "y", "z">>
UpperCase == <<"A", "B", "C", "D", "E", "F", "G", "H", "I", "J", "K", "L", "M", "N", "O", "P", "Q", "R", "S", "T", "U", "V", "W", "X", "Y", "Z">>

\* the characters the regular-expression class \w matches
WordChars ==
  {LowerCase[k] : k \in 1..26} \cup {UpperCase[k] : k \in 1..26}
    \cup {"0", "1", "2", "3", "4", "5", "6", "7", "8", "9", "_"}

\* String.prototype.toLowerCase
toLowerCase(s) ==
  [i \in 1..Len(s) |->
     IF \E k \in 1..26 : UpperCase[k] = s[i]
     THEN LowerCase[CHOOSE k \in 1..26 : UpperCase[k] = s[i]]
     ELSE s[i]]

\* String.prototype.includes
includes(s, k) == \E i \in 0..(Len(s) - Len(k)) : SubSeq(s, i + 1, i + Len(k)) = k

\* part_003 lines 791-797
fahrenheitKeywords ==
  <<<<"f", "a", "h", "r", "e", "n", "h", "e", "i", "t">>,
    <<"f", "a", "r", "e", "n", "h", "e", "i", "t">>,
    <<"f">>,
    <<"°", "f">>,
    <<"d", "e", "g", "r", "e", "e", "s", " ", "f", "a", "h", "r", "e", "n", "h", "e", "i", "t">>,
    <<"i", "n", " ", "f", "a", "h", "r", "e", "n", "h", "e", "i", "t">>,
    <<"c", "o", "n", "v", "e", "r", "t", " ", "t", "o", " ", "f", "a", "h", "r", "e", "n", "h", "e", "i", "t">>,
    <<"s", "h", "o", "w", " ", "f", "a", "h", "r", "e", "n", "h", "e", "i", "t">>,
    <<"f", " ", "i", "n", "s", "t", "e", "a", "d", " ", "o", "f", " ", "c">>,
    <<"f", "a", "h", "r", "e", "n", "h", "e", "i", "t", " ", "i", "n", "s", "t", "e", "a", "d", " ", "o", "f", " ", "c", "e", "l", "s", "i", "u", "s">>,
    <<"i", "n", " ", "f">>,
    <<"i", "n", " ", "f", " ", "i", "n", "s", "t", "e", "a", "d", " ", "o", "f", " ", "c">>,
    <<"f", " ", "i", "n", "s", "t", "e", "a", "d", " ", "o", "f", " ", "c", "e", "l", "s", "i", "u", "s">>,
    <<"f", "a", "h", "r", "e", "n", "h", "e", "i", "t", " ", "i", "n", "s", "t", "e", "a", "d", " ", "o", "f", " ", "c">>,
    <<"f", " ", "i", "n", "s", "t", "e", "a", "d", " ", "o", "f", " ", "c">>>>

\* RealMCPWeatherServer.detectFahrenheitPreference, part_003 lines 788-801
detectFahrenheitPreference(userMessage) ==
  IF ~Truthy(userMessage) \/ userMessage = <<"string", <<>>>> THEN FALSE
  ELSE \E n \in DOMAIN fahrenheitKeywords :
         includes(toLowerCase(userMessage[2]), fahrenheitKeywords[n])

\* the last position of the run of \w characters that starts at position i
WordEnd(s, i) ==
  CHOOSE j \in i..Len(s) :
    /\ \A k \in i..j : s[k] \in WordChars
    /\ j = Len(s) \/ s[j + 1] \notin WordChars

Leftmost(S) == CHOOSE i \in S : \A j \in S : i <= j

\* s.match(/<lit>(\w+)/i): the capture of the leftmost match, <<>> without one
MatchAfter(s, lit) ==
  LET starts == {i \in 1..(Len(s) - Len(lit)) :
                   /\ SubSeq(toLowerCase(s), i, i + Len(lit) - 1) = lit
                   /\ s[i + Len(lit)] \in WordChars}
  IN IF starts = {} THEN <<>>
     ELSE SubSeq(s, Leftmost(starts) + Len(lit), WordEnd(s, Leftmost(starts) + Len(lit)))

\* s.match(/(\w+)<lit>/i), lit beginning with a blank: the capture of the
\* leftmost match, <<>> without one
MatchBefore(s, lit) ==
  LET starts == {i \in 1..Len(s) :
                   /\ s[i] \in WordChars
                   /\ WordEnd(s, i) + Len(lit) <= Len(s)
                   /\ SubSeq(toLowerCase(s), WordEnd(s, i) + 1, WordEnd(s, i) + Len(lit)) = lit}
  IN IF starts = {} THEN <<>>
     ELSE SubSeq(s, Leftmost(starts), WordEnd(s, Leftmost(starts)))

\* part_003 lines 646-659: the first of the four cityPatterns that matches
cityPatterns(s) ==
  <<MatchAfter(s, <<"w", "e", "a", "t", "h", "e", "r", " ", "i", "n", " ">>),
    MatchAfter(s, <<"f", "o", "r", "e", "c", "a", "s", "t", " ", "f", "o", "r", " ">>),
    MatchBefore(s, <<" ", "w", "e", "a", "t", "h", "e", "r">>),
    MatchBefore(s, <<" ", "f", "o", "r", "e", "c", "a", "s", "t">>)>>

\* part_003 lines 665 and 676
isForecastRequest(s) ==
  \/ includes(toLowerCase(s), <<"f", "o", "r", "e", "c", "a", "s", "t">>)
  \/ includes(toLowerCase(s), <<"w", "e", "e", "k">>)
  \/ includes(toLowerCase(s), <<"d", "a", "y", "s">>)
  \/ includes(toLowerCase(s), <<"t", "h", "i", "s", " ", "w", "e", "e", "k">>)
  \/ includes(toLowerCase(s), <<"n", "e", "x", "t", " ", "w", "e", "e", "k">>)

\* the spelling of the city names the model works with
Lexicon == <<[word |-> "Paris", chars |-> <<"P", "a", "r", "i", "s">>],
             [word |-> "Oslo", chars |-> <<"O", "s", "l", "o">>]>>

\* the string value a captured character sequence stands for
Intern(chars) ==
  IF \E n \in DOMAIN Lexicon : Lexicon[n].chars = chars
  THEN Str(Lexicon[CHOOSE n \in DOMAIN Lexicon : Lexicon[n].chars = chars].word)
  ELSE Str("unlisted")

QWeatherIn == <<"w", "e", "a", "t", "h", "e", "r", " ", "i", "n", " ", "P", "a", "r", "i", "s">>
QForecast == <<"O", "s", "l", "o", " ", "f", "o", "r", "e", "c", "a", "s", "t">>
QUmbrella == <<"u", "m", "b", "r", "e", "l", "l", "a">>
QForecastFor == <<"f", "o", "r", "e", "c", "a", "s", "t", " ", "f", "o", "r", " ", "P", "a", "r", "i", "s">>
\* the question texts that mention no temperature unit
NoUnitQuestions == {QWeatherIn, QForecast, QUmbrella, QForecastFor}

\* RealMCPWeatherServer.handleWeatherQuestion, part_003 lines 638-735
handleWeatherQuestion_registered(c, H, C, question, city) ==
  LET wantsFahrenheit == detectFahrenheitPreference(question)
      matches == cityPatterns(question[2])
      found == {n \in DOMAIN matches : matches[n] # <<>>}
      targetCity == IF Truthy(city) THEN city
                    ELSE IF found = {} THEN NULL
                    ELSE Intern(matches[Leftmost(found)])
      c1 == [c EXCEPT !.handler = "handleWeatherQuestion", !.city = targetCity,
                      !.useFahrenheit = wantsFahrenheit]
  IN IF Truthy(targetCity)
     THEN IF isForecastRequest(question[2])
          THEN handleGetForecast(c1, H, C, targetCity, Num(7))
          ELSE handleGetWeather(c1, H, C, targetCity)
     ELSE IF ~claudeService
     THEN Complete(c1, H, NoClaudeText, FALSE, NoData)
     ELSE [c |-> [c1 EXCEPT !.pc = "claude", !.claude = @ + 1], H |-> H]

\* part_003 lines 356-466: the registerTool calls of setupTools, in order
setupTools == <<"get_weather", "get_forecast", "get_weather_by_coords",
                "geocode_city", "ask_weather_question",
                "get_weather_fahrenheit", "get_forecast_fahrenheit">>

\* part_003 lines 356-466: the names setupTools registers
RegisteredTools == {"get_weather", "get_forecast", "get_weather_by_coords",
                    "geocode_city", "ask_weather_question",
                    "get_weather_fahrenheit", "get_forecast_fahrenheit"}

\* the callbacks setupTools registers (part_003 lines 367-369, 383-385,
\* 400-402, 416-418, 432-434, 447-449, 463-465), up to the first request;
\* the arguments have passed the input schema, which fills in the defaults
registerTool(c0, H, C, toolName, args) ==
  LET c == [c0 EXCEPT !.impl = "registerTool", !.name = toolName, !.args = args]
      f == [c EXCEPT !.useFahrenheit = TRUE]
  IN IF toolName = "get_weather" THEN handleGetWeather(c, H, C, args.city)
     ELSE IF toolName = "get_weather_fahrenheit" THEN handleGetWeather(f, H, C, args.city)
     ELSE IF toolName = "get_forecast"
     THEN handleGetForecast(c, H, C, args.city, Default(args.days, Num(7)))
     ELSE IF toolName = "get_forecast_fahrenheit"
     THEN handleGetForecast(f, H, C, args.city, Default(args.days, Num(7)))
     ELSE IF toolName = "get_weather_by_coords"
     THEN handleGetWeatherByCoords(c, H, C, args.latitude, args.longitude,
                                   Default(args.days, Num(1)))
     ELSE IF toolName = "geocode_city"
     THEN handleGeocodeCity(c, H, C, args.city, Default(args.count, Num(1)))
     ELSE handleWeatherQuestion_registered(c, H, C, args.question, Default(args.city, NULL))

\* the text the Text-Completion Service returns
Completion == <<"completion">>

\* part_005 lines 191-238: the renderings ClaudeService falls back to when
\* the completion request fails
fallbackCurrentWeatherResponse(data, place) ==
  <<"The current weather in ", place, " is ", data.reading, " C">>
fallbackForecastResponse(data, place) ==
  <<"The forecast for ", place, " shows ", data.reading, " C today">>

QuestionFallbackText ==
  <<"I'd be happy to help with weather questions! Could you specify a location so I can provide accurate information?">>

\* the ClaudeService method the handler awaits settles: ok tells whether the
\* completion request succeeded (part_005 lines 49-63, 91-105, 134-150, 171-185)
ClaudeText_NoFallback(c, H, ok) == IF ok THEN Completion ELSE <<>>
ClaudeText(c, H, ok) ==
  IF ok THEN Completion
  ELSE IF c.handler = "handleGetWeather"
  THEN fallbackCurrentWeatherResponse(H[c.obj], ToStr(c.city))
  ELSE IF c.handler = "handleGetForecast"
  THEN fallbackForecastResponse(H[c.obj], ToStr(c.city))
  ELSE IF c.handler = "handleGetWeatherByCoords"
  THEN IF c.days = Num(1)
       THEN fallbackCurrentWeatherResponse(H[c.obj], "coordinates")
       ELSE fallbackForecastResponse(H[c.obj], "coordinates")
  ELSE QuestionFallbackText

\* the heap without the objects that neither the cache nor a call refers to
Collect(H, C, T) ==
  LET live == {C[k].data : k \in {k2 \in DOMAIN C : k2[1] = "forecast"}}
                \cup {T[t].obj : t \in DOMAIN T}
  IN [i \in DOMAIN H \cap live |-> H[i]]

\* what a later call may compare itself with
Summary(c) ==
  [name |-> c.name, city |-> c.city, isError |-> c.result.isError,
   weatherData |-> c.result.weatherData, startedAt |-> c.startedAt,
   geoTs |-> c.geoTs, fcTs |-> c.fcTs, listed |-> c.listed]

NoSummary == Summary(IdleTool)

\* the argument objects the dispatcher scenario sends with each tool name:
\* no arguments member, an empty object, and one well-formed object
ArgsFor(name) ==
  {MISSING, NoArgs} \cup
  (IF name \in {"get_weather", "geocode_city"}
   THEN {[NoArgs EXCEPT !.city = Str("Paris")]}
   ELSE IF name = "get_forecast"
   THEN {[NoArgs EXCEPT !.city = Str("Paris")],
         [NoArgs EXCEPT !.city = Str("Paris"), !.days = Num(3)]}
   ELSE IF name = "get_weather_by_coords"
   THEN {[NoArgs EXCEPT !.latitude = Num(48), !.longitude = Num(2)],
         [NoArgs EXCEPT !.latitude = Num(48), !.longitude = Num(2), !.days = Num(3)]}
   ELSE {[NoArgs EXCEPT !.question = Str(QUmbrella), !.city = Str("Paris")]})

UnknownTool == "nonexistent_tool_xyz"

\* a tools/call request reaches the dispatcher
CallTool(t, name, args) ==
  /\ tool[t].pc \in {"idle", "done"}
  /\ LET r == callTool([IdleTool EXCEPT !.startedAt = now], heap, cache, name, args)
     IN /\ tool' = [tool EXCEPT ![t] = r.c]
        /\ heap' = Collect(r.H, cache, tool')
  /\ ntool' = ntool + 1
  /\ prev' = IF tool[t].pc = "done" THEN Summary(tool[t]) ELSE prev
  /\ cleared' = [prev |-> cleared.cur, cur |-> FALSE]
  /\ UNCHANGED <<cache, now, nticks, claudeService>>

\* a tools/list request (part_004 lines 419-420 call listTools)
ListTools(t) ==
  /\ tool[t].pc \in {"idle", "done"}
  /\ tool' = [tool EXCEPT ![t] =
                [IdleTool EXCEPT !.pc = "done", !.impl = "listTools", !.name = "tools/list",
                                 !.startedAt = now, !.listed = listTools]]
  /\ heap' = Collect(heap, cache, tool')
  /\ ntool' = ntool + 1
  /\ prev' = IF tool[t].pc = "done" THEN Summary(tool[t]) ELSE prev
  /\ cleared' = [prev |-> cleared.cur, cur |-> FALSE]
  /\ UNCHANGED <<cache, now, nticks, claudeService>>

\* the argument objects that pass the input schema of a registered tool
RegisteredArgsFor(name) ==
  IF name \in {"get_weather", "get_weather_fahrenheit", "geocode_city",
               "get_forecast", "get_forecast_fahrenheit"}
  THEN {[NoArgs EXCEPT !.city = Str("Paris")]}
  ELSE IF name = "get_weather_by_coords"
  THEN {[NoArgs EXCEPT !.latitude = Num(48), !.longitude = Num(2)]}
  ELSE {[NoArgs EXCEPT !.question = Str(q)] : q \in NoUnitQuestions}
         \cup {[NoArgs EXCEPT !.question = Str(QUmbrella), !.city = Str("Paris")]}

\* the MCP SDK invokes the callback registered for a tool
CallRegisteredTool(t, name, args) ==
  /\ tool[t].pc \in {"idle", "done"}
  /\ LET r == registerTool([IdleTool EXCEPT !.startedAt = now], heap, cache, name, args)
     IN /\ tool' = [tool EXCEPT ![t] = r.c]
        /\ heap' = Collect(r.H, cache, tool')
  /\ ntool' = ntool + 1
  /\ prev' = IF tool[t].pc = "done" THEN Summary(tool[t]) ELSE prev
  /\ cleared' = [prev |-> cleared.cur, cur |-> FALSE]
  /\ UNCHANGED <<cache, now, nticks, claudeService>>

\* the geocoding endpoint settles the request of geocodeCity (lines 35-62)
GeocodeResponds(t, ans) ==
  /\ tool[t].pc = "geocode"
  /\ ans \in GeocodeAnswers(tool[t].city)
  /\ IF ~ans.ok
     THEN /\ cache' = cache
          /\ LET r == GeocodeFails(tool[t], heap)
             IN /\ tool' = [tool EXCEPT ![t] = r.c]
                /\ heap' = Collect(r.H, cache', tool')
     ELSE /\ cache' = CacheSet(cache, GeocodeKey(tool[t].city, tool[t].count),
                              ans.results, now)
          /\ LET r == AfterLocations([tool[t] EXCEPT !.geoTs = now], heap, cache',
                                     ans.results)
             IN /\ tool' = [tool EXCEPT ![t] = r.c]
                /\ heap' = Collect(r.H, cache', tool')
  /\ UNCHANGED <<now, nticks, claudeService, ntool, prev, cleared>>

ForecastAnswers == {"fail"} \cup Readings

\* the forecast endpoint settles the request of getWeatherForecast (lines 80-147)
ForecastResponds(t, ans) ==
  /\ tool[t].pc = "forecast"
  /\ ans \in ForecastAnswers
  /\ IF ans = "fail"
     THEN /\ cache' = cache
          /\ LET r == ForecastFails(tool[t], heap)
             IN /\ tool' = [tool EXCEPT ![t] = r.c]
                /\ heap' = Collect(r.H, cache', tool')
     ELSE LET obj == NewObj(heap)
              H1 == [i \in DOMAIN heap \cup {obj} |->
                       IF i = obj
                       THEN [reading |-> ans, units |-> RequestedUnits, fetchedAt |-> now,
                             location |-> NoLocation]
                       ELSE heap[i]]
              key == ForecastKey(tool[t].latitude, tool[t].longitude, tool[t].days)
          IN /\ cache' = CacheSet(cache, key, obj, now)
             /\ LET r == AfterForecast([tool[t] EXCEPT !.fcTs = now], H1, obj)
                IN /\ tool' = [tool EXCEPT ![t] = r.c]
                   /\ heap' = Collect(r.H, cache', tool')
  /\ UNCHANGED <<now, nticks, claudeService, ntool, prev, cleared>>

\* the ClaudeService method awaited by the handler returns its text
ClaudeResponds(t, ok) ==
  /\ tool[t].pc = "claude"
  /\ LET c == [tool[t] EXCEPT !.claudeOk = IF ok THEN "ok" ELSE "failed"]
         r == Complete(c, heap, ClaudeText(c, heap, ok), FALSE, Payload(c, heap, c.obj))
     IN /\ tool' = [tool EXCEPT ![t] = r.c]
        /\ heap' = Collect(r.H, cache, tool')
  /\ UNCHANGED <<cache, now, nticks, claudeService, ntool, prev, cleared>>

\* time passes
Tick(d) ==
  /\ nticks < MaxTicks
  /\ d \in TickSteps
  /\ now' = now + d
  /\ nticks' = nticks + 1
  /\ UNCHANGED <<cache, heap, claudeService, tool, ntool, prev, cleared>>

\* WeatherService.clearCache, lines 315-317
ClearCache ==
  /\ cache # EmptyMap
  /\ cache' = EmptyMap
  /\ heap' = Collect(heap, cache', tool)
  /\ cleared' = [cleared EXCEPT !.cur = TRUE]
  /\ UNCHANGED <<now, nticks, claudeService, tool, ntool, prev>>

ToolInit ==
  /\ cache = EmptyMap
  /\ heap = EmptyMap
  /\ now = 0
  /\ nticks = 0
  /\ claudeService \in BOOLEAN
  /\ tool = [t \in ConcurrentTasks |-> IdleTool]
  /\ ntool = 0
  /\ prev = NoSummary
  /\ cleared = [prev |-> FALSE, cur |-> FALSE]

\* the requests of a call in progress settle
ToolStep(t) ==
  \/ \E ans \in GeocodeAnswers(tool[t].city) : GeocodeResponds(t, ans)
  \/ \E ans \in ForecastAnswers : ForecastResponds(t, ans)
  \/ \E ok \in BOOLEAN : ClaudeResponds(t, ok)


(***************************************************************************)
(* Part 3 - the Chat Gateway endpoint POST /api/chat (part_007)            *)
(***************************************************************************)

VARIABLES
  chat            \* per task: the /api/chat request it is handling

\* /api/chat requests one task handles in one behaviour
MaxChats == 2

NoBody == [response |-> <<>>, kind |-> "none"]

\* a request handler that has not been entered
IdleChat == [pc |-> "idle", n |-> 0, message |-> UNDEFINED, city |-> NULL,
             toolName |-> "", responses |-> 0, status |-> 0, body |-> NoBody]

QHello == <<"H", "e", "l", "l", "o", " ", "t", "h", "e", "r", "e">>
QThanks == <<"t", "h", "a", "n", "k", " ", "y", "o", "u">>
QTemp == <<"T", "e", "m", "p", " ", "i", "n", " ", "O", "s", "l", "o", " ", "f", "o", "r", " ", "3", " ", "d", "a", "y", "s">>

QWeek == <<"W", "e", "a", "t", "h", "e", "r", " ", "t", "h", "i", "s", " ", "W", "E", "E", "K">>

\* the `message` member of the request body: absent, or a string
ChatMessages ==
  {UNDEFINED} \cup {Str(q) : q \in {QWeatherIn, QForecast, QTemp, QWeek, QUmbrella, QHello, QThanks}}

\* lines 185-187
isWeatherQuery(message) ==
  \/ includes(toLowerCase(message), <<"w", "e", "a", "t", "h", "e", "r">>)
  \/ includes(toLowerCase(message), <<"f", "o", "r", "e", "c", "a", "s", "t">>)
  \/ includes(toLowerCase(message), <<"t", "e", "m", "p">>)

\* lines 212-214
wantsForecast_NoDays(message) ==
  \/ includes(toLowerCase(message), <<"f", "o", "r", "e", "c", "a", "s", "t">>)
  \/ includes(toLowerCase(message), <<"w", "e", "e", "k">>)
wantsForecast(message) ==
  \/ includes(toLowerCase(message), <<"f", "o", "r", "e", "c", "a", "s", "t">>)
  \/ includes(toLowerCase(message), <<"w", "e", "e", "k">>)
  \/ includes(toLowerCase(message), <<"d", "a", "y", "s">>)

\* generateChatResponse, lines 346-408: the texts it may return (the last
\* branch picks one of five at random)
generateChatResponse(message) ==
  LET lowerMessage == toLowerCase(message)
      has(w) == includes(lowerMessage, w)
  IN IF has(<<"h", "e", "l", "l", "o">>) \/ has(<<"h", "i">>) \/ has(<<"h", "e", "y">>)
     THEN {<<"Hello! I'm your weather-enabled chat assistant.">>}
     ELSE IF has(<<"h", "e", "l", "p">>) \/ has(<<"w", "h", "a", "t", " ", "c", "a", "n", " ", "y", "o", "u", " ", "d", "o">>)
     THEN {<<"I can help you with:">>}
     ELSE IF has(<<"t", "h", "a", "n", "k">>)
     THEN {<<"You're welcome! Is there anything else I can help you with?">>}
     ELSE IF has(<<"b", "y", "e">>) \/ has(<<"g", "o", "o", "d", "b", "y", "e">>)
     THEN {<<"Goodbye! It was nice chatting with you.">>}
     ELSE IF has(<<"h", "o", "w", " ", "a", "r", "e", " ", "y", "o", "u">>) \/ has(<<"h", "o", "w", " ", "d", "o", " ", "y", "o", "u", " ", "f", "e", "e", "l">>)
     THEN {<<"I'm doing great, thank you for asking!">>}
     ELSE IF has(<<"c", "a", "p", "i", "t", "a", "l">>) /\ has(<<"e", "n", "g", "l", "a", "n", "d">>)
     THEN {<<"The capital of England is London!">>}
     ELSE IF has(<<"c", "a", "p", "i", "t", "a", "l">>) /\ (has(<<"f", "r", "a", "n", "c", "e">>) \/ has(<<"f", "r", "e", "n", "c", "h">>))
     THEN {<<"The capital of France is Paris!">>}
     ELSE IF has(<<"c", "a", "p", "i", "t", "a", "l">>) /\ has(<<"j", "a", "p", "a", "n">>)
     THEN {<<"The capital of Japan is Tokyo!">>}
     ELSE IF has(<<"w", "h", "a", "t">>) /\ has(<<"t", "i", "m", "e">>)
     THEN {<<"I don't have access to real-time clock data">>}
     ELSE IF has(<<"w", "h", "a", "t">>) /\ has(<<"2", "+", "2">>)
     THEN {<<"2 + 2 = 4! Easy math question.">>}
     ELSE IF has(<<"f", "a", "v", "o", "r", "i", "t", "e", " ", "c", "o", "l", "o", "r">>) \/ has(<<"f", "a", "v", "o", "u", "r", "i", "t", "e", " ", "c", "o", "l", "o", "u", "r">>)
     THEN {<<"I'd say blue - like a clear sky on a perfect weather day!">>}
     ELSE {<<"That's an interesting question!">>,
           <<"I'd love to help with that!">>,
           <<"Great question!">>,
           <<"I understand what you're asking!">>,
           <<"That's a good point!">>}

\* what `await claudeService.extractCityFromMessage(message)` leaves in
\* cityMatch (lines 191-201): a city name, or null when none is found or
\* when the require, the constructor or the call throws
extractCityFromMessage == {NULL} \cup {Str(c) : c \in Cities}

\* res.json(body) / res.status(status).json(body)
Respond(ch, status, text, kind) ==
  [ch EXCEPT !.pc = "responded", !.responses = @ + 1, !.status = status,
             !.body = [response |-> text, kind |-> kind]]

\* the shapes of the result object callMCPTool returns: its content holds a
\* text block first, it has no content, or it has an error member
ResultShapes == {"text", "noContent", "errorMember"}

\* the message of the Error callMCPTool throws (lines 113-166; an error
\* thrown inside the try has neither response nor request and is rethrown
\* as 'Request error: ...')
ErrorMessage(c) ==
  IF c.initFailed THEN <<"Request error: ", "Failed to connect to MCP server">>
  ELSE IF c.answer = "rpcError" THEN <<"Request error: ", "MCP tool call failed">>
  ELSE IF c.answer = "badBody"
  THEN <<"Request error: ", "Invalid SSE response format from MCP server">>
  ELSE IF c.answer = "statusOther" THEN <<"MCP server error">>
  ELSE <<"MCP server is not responding. Make sure it's running on port 3001.">>

\* lines 222-251: callMCPTool has settled as c
AfterCallMCPTool(ch, c, shape) ==
  LET sorry == <<"Sorry, I couldn't get the weather data for ", ToStr(ch.city), ". ">>
  IN IF c.outcome = "error"
     THEN Respond(ch, 200, sorry \o ErrorMessage(c), "error")
     ELSE IF shape = "errorMember"
     THEN Respond(ch, 200, sorry \o <<"tool error">>, "error")
     ELSE IF shape = "noContent"
     THEN Respond(ch, 200, sorry \o <<"Invalid response format.">>, "error")
     ELSE Respond(ch, 200, <<"text of ", ch.toolName, " for ", ToStr(ch.city)>>, "weather")

\* a POST /api/chat request arrives: lines 181-189, or all of the handler
\* when the message is not about weather or reading it throws
PostChat(t, message) ==
  /\ chat[t].pc \in {"idle", "responded"}
  /\ chat[t].n < MaxChats
  /\ message \in ChatMessages
  /\ LET ch == [IdleChat EXCEPT !.n = chat[t].n + 1, !.message = message]
     IN IF message = UNDEFINED
        THEN \* message.toLowerCase() throws; the outer catch answers (lines 258-264)
             chat' = [chat EXCEPT ![t] =
                        Respond(ch, 500,
                                <<"Sorry, I encountered an error. Please try again.">>,
                                "error")]
        ELSE IF isWeatherQuery(message[2])
        THEN chat' = [chat EXCEPT ![t] = [ch EXCEPT !.pc = "awaitCity"]]
        ELSE \E text \in generateChatResponse(message[2]) :
               chat' = [chat EXCEPT ![t] = Respond(ch, 200, text, "chat")]
  /\ UNCHANGED gatewayVars

\* the city extraction settles: lines 196-220, up to the first request of
\* callMCPTool
CityExtracted(t, cityMatch) ==
  /\ chat[t].pc = "awaitCity"
  /\ cityMatch \in extractCityFromMessage
  /\ IF ~Truthy(cityMatch)
     THEN /\ chat' = [chat EXCEPT ![t] =
                        Respond(@, 200,
                                <<"I'd be happy to help you with the weather! Which city would you like to know the weather for?">>,
                                "needsCity")]
          /\ UNCHANGED gatewayVars
     ELSE /\ chat' = [chat EXCEPT ![t] =
                        [@ EXCEPT !.pc = "awaitTool", !.city = cityMatch,
                                  !.toolName = IF wantsForecast(chat[t].message[2])
                                               THEN "get_forecast" ELSE "get_weather"]]
          /\ StartCall(t)

\* a request of the callMCPTool the handler awaits settles; when that ends
\* the invocation, the handler answers (lines 222-251)
ChatToolSettles(t) ==
  /\ chat[t].pc = "awaitTool"
  /\ \/ InitializeFails(t)
     \/ \E hdr \in SessionIds \cup {UNDEFINED}, bodyOk \in BOOLEAN :
          InitializeResponds(t, hdr, bodyOk)
     \/ \E r \in ToolsCallAnswers : ToolsCallResponds(t, r)
  /\ \E shape \in ResultShapes :
       chat' = [chat EXCEPT ![t] =
                  IF calls'[t].pc = "done"
                  THEN AfterCallMCPTool(@, calls'[t], shape) ELSE @]

ChatInit == chat = [t \in Tasks |-> IdleChat]


(***************************************************************************)
(* Part 4 - RealMCPHTTPServer (real-mcp-http-server.js): the session map   *)
(* of the tool-serving process                                             *)
(***************************************************************************)

VARIABLES
  transports,     \* this.transports: own properties, session id -> transport
  tr,             \* the transports created so far, each with the
                  \* RealMCPWeatherServer instance connected to it
  httpServer,     \* "new", "listening" after start(), "closed" after close()
  last            \* the outcome of the request handled last

httpVars == <<transports, tr, httpServer, last>>

\* initialize requests accepted in one behaviour
MaxTransports == 2

\* the id the sessionIdGenerator (randomUUID) gives the n-th transport
Uuid(n) == <<"uuid", n>>
\* a well-formed id no session was ever given
UnknownId == <<"uuid", 0>>
\* a header value that names a member of Object.prototype
PrototypeKey == <<"key", "constructor">>

\* the values of the mcp-session-id request header (UNDEFINED: no header)
SessionHeaders == {UNDEFINED, UnknownId, PrototypeKey} \cup {Uuid(n) : n \in 1..MaxTransports}

McpBodies == {"initialize", "tools/call", "tools/list"}

\* `this.transports[sessionId]` on the plain object created by `{}`: an own
\* property, else a member inherited from Object.prototype, else undefined
Lookup(T, k) ==
  IF k \in DOMAIN T THEN [kind |-> "own", tid |-> T[k]]
  ELSE IF k = PrototypeKey THEN [kind |-> "inherited", tid |-> 0]
  ELSE [kind |-> "none", tid |-> 0]

\* line 124 / 176: `this.transports[sessionId]` is truthy
Stored(T, k) == Lookup(T, k).kind # "none"

\* isInitializeRequest(req.body)
isInitializeRequest(body) == body = "initialize"

NoOutcome == [req |-> "none", status |-> 0, code |-> 0, routed |-> 0, created |-> 0,
              fetched |-> FALSE, freshInProcess |-> FALSE]

\* a get_weather call served by a WeatherService whose cache is C, with both
\* provider requests succeeding: the cache it leaves, and whether the Weather
\* Data Source was contacted (weather-service.js lines 23-63, 68-148, 153-172)
ServeGetWeather(C, city, at) ==
  LET gkey == GeocodeKey(Str(city), Num(1))
      geo == CacheLookup(C, gkey, geocodeTimeout, at)
      C1 == IF geo.hit THEN C ELSE CacheSet(C, gkey, <<LocationOf(city)>>, at)
      fkey == ForecastKey(Num(LocationOf(city).latitude), Num(LocationOf(city).longitude), Num(1))
      fc == CacheLookup(C1, fkey, cacheTimeout, at)
      C2 == IF fc.hit THEN C1 ELSE CacheSet(C1, fkey, "clear", at)
  IN [cache |-> C2, fetched |-> ~geo.hit \/ ~fc.hit]

\* some WeatherService of the process holds fresh entries for the city
FreshInProcess(city, at) ==
  \E n \in DOMAIN tr : ~ServeGetWeather(tr[n].cache, city, at).fetched

\* start(), lines 183-197
Start ==
  /\ httpServer = "new"
  /\ httpServer' = "listening"
  /\ UNCHANGED <<transports, tr, last>>

\* what transport.handleRequest does with the initialize request on the new
\* transport n (line 169): it refuses the request (host, origin or accept
\* header), or generates the session id and calls onsessioninitialized
\* (lines 130-134).  Every await between the creation of the transport and
\* this point settles without input or output, so no other request and no
\* close() runs in between.
InitializeHandled(T, R, n, accepted) ==
  IF accepted
  THEN [transports |-> [k \in DOMAIN T \cup {Uuid(n)} |-> IF k = Uuid(n) THEN n ELSE T[k]],
        tr |-> [R EXCEPT ![n].state = "open", ![n].sessionId = Uuid(n)],
        status |-> 200]
  ELSE [transports |-> T, tr |-> [R EXCEPT ![n].state = "refused"], status |-> 403]

\* POST /mcp: the route at lines 50-66 with handleMCPRequest, lines 118-170
PostMcp(hdr, body, city, accepted) ==
  /\ httpServer = "listening"
  /\ hdr \in SessionHeaders /\ body \in McpBodies /\ city \in Cities
  /\ LET look == Lookup(transports, hdr)
         out == [NoOutcome EXCEPT !.req = body]
     IN IF hdr # UNDEFINED /\ Stored(transports, hdr)
        THEN IF look.kind = "inherited"
             THEN \* transport.handleRequest is not a function: the route's
                  \* catch answers 500 (lines 53-65)
                  /\ last' = [out EXCEPT !.status = 500, !.code = -32603]
                  /\ UNCHANGED <<transports, tr>>
             ELSE IF body = "tools/call"
             THEN LET r == ServeGetWeather(tr[look.tid].cache, city, now)
                  IN /\ tr' = [tr EXCEPT ![look.tid].cache = r.cache]
                     /\ last' = [out EXCEPT !.status = 200, !.routed = look.tid,
                                            !.fetched = r.fetched,
                                            !.freshInProcess = FreshInProcess(city, now)]
                     /\ UNCHANGED transports
             ELSE \* the transport answers: an initialize request on an
                  \* initialized transport is refused by the transport
                  /\ last' = [out EXCEPT !.status = IF body = "initialize" THEN 400 ELSE 200,
                                         !.code = IF body = "initialize" THEN -32600 ELSE 0,
                                         !.routed = look.tid]
                  /\ UNCHANGED <<transports, tr>>
        ELSE IF hdr = UNDEFINED /\ isInitializeRequest(body)
        THEN \* lines 127-154 and 169: new transport and server instance
             LET n == Cardinality(DOMAIN tr) + 1
                 R == [k \in DOMAIN tr \cup {n} |->
                         IF k = n
                         THEN [state |-> "connecting", sessionId |-> UNDEFINED,
                               cache |-> EmptyMap]
                         ELSE tr[k]]
                 r == InitializeHandled(transports, R, n, accepted)
             IN /\ n <= MaxTransports
                /\ tr' = r.tr
                /\ transports' = r.transports
                /\ last' = [out EXCEPT !.created = n, !.status = r.status]
        ELSE \* lines 155-166
             /\ last' = [out EXCEPT !.status = 400, !.code = -32000]
             /\ UNCHANGED <<transports, tr>>
  /\ UNCHANGED httpServer

\* transport.onclose, lines 142-147, run by transport.close()
OnClose_Keep(T, n) == T
OnClose(T, n) ==
  IF tr[n].sessionId # UNDEFINED
  THEN [k \in DOMAIN T \ {tr[n].sessionId} |-> T[k]]
  ELSE T

\* GET /mcp and DELETE /mcp: handleSessionRequest, lines 172-181; the
\* transport ends the session on DELETE
SessionRequest(method, hdr) ==
  /\ httpServer = "listening"
  /\ method \in {"GET", "DELETE"} /\ hdr \in SessionHeaders
  /\ LET look == Lookup(transports, hdr)
         out == [NoOutcome EXCEPT !.req = method]
     IN IF hdr = UNDEFINED \/ ~Stored(transports, hdr)
        THEN /\ last' = [out EXCEPT !.status = 400]
             /\ UNCHANGED <<transports, tr>>
        ELSE IF look.kind = "inherited"
        THEN \* the TypeError escapes the route: no response is sent
             /\ last' = out
             /\ UNCHANGED <<transports, tr>>
        ELSE IF method = "DELETE"
        THEN /\ tr' = [tr EXCEPT ![look.tid].state = "closed"]
             /\ transports' = OnClose(transports, look.tid)
             /\ last' = [out EXCEPT !.status = 200, !.routed = look.tid]
        ELSE /\ last' = [out EXCEPT !.status = 200, !.routed = look.tid]
             /\ UNCHANGED <<transports, tr>>
  /\ UNCHANGED httpServer

\* GET /health, line 85
HealthSessions == Cardinality(DOMAIN transports)

\* close(), lines 199-218, on a started server
Close ==
  /\ httpServer = "listening"
  /\ tr' = [n \in DOMAIN tr |->
              IF \E k \in DOMAIN transports : transports[k] = n
              THEN [tr[n] EXCEPT !.state = "closed"] ELSE tr[n]]
  /\ transports' = EmptyMap
  /\ httpServer' = "closed"
  /\ last' = [NoOutcome EXCEPT !.req = "close"]

HttpInit ==
  /\ transports = EmptyMap
  /\ tr = EmptyMap
  /\ httpServer = "new"
  /\ last = NoOutcome


(***************************************************************************)
(* Part 5 - HTTPServerTransport.sendRequest (part_003 lines 193-238)       *)
(***************************************************************************)

VARIABLES
  req             \* the sendRequest calls, in the order they are made

\* sendRequest calls in one behaviour
MaxRequests == 3

\* line 231: the timeout of a request, in milliseconds
requestTimeout == 30000

\* a sendRequest call that has not been made
NoRequest == [st |-> "unsent", id |-> -1, onResponse |-> FALSE, onError |-> FALSE,
              timer |-> FALSE, answered |-> FALSE, value |-> 0, settles |-> 0]

\* resolve / reject of the promise of a call: only the first one settles it
Settle(q, st, value) ==
  IF q.st = "pending"
  THEN [q EXCEPT !.st = st, !.value = value, !.settles = @ + 1]
  ELSE q

\* sendRequest(request), lines 195-226: the id is Date.now().toString()
SendRequest(r) ==
  /\ r \in 1..MaxRequests
  /\ req[r].st = "unsent"
  /\ \A k \in 1..(r - 1) : req[k].st # "unsent"
  /\ req' = [req EXCEPT ![r] = [NoRequest EXCEPT !.st = "pending", !.id = now,
                                                 !.onResponse = TRUE, !.onError = TRUE,
                                                 !.timer = TRUE]]

\* the MCP server answers the message of call m through sendResponse (lines
\* 241-243): every responseHandler registered at that time runs (lines 200-205)
SendResponse(m) ==
  /\ m \in 1..MaxRequests
  /\ req[m].st # "unsent" /\ ~req[m].answered
  /\ req' = [r \in 1..MaxRequests |->
               LET q == IF r = m THEN [req[r] EXCEPT !.answered = TRUE] ELSE req[r]
               IN IF q.onResponse /\ q.id = req[m].id
                  THEN Settle([q EXCEPT !.onResponse = FALSE], "resolved", m)
                  ELSE q]

\* the MCP server answers the message of call m through sendError (lines
\* 245-247): every errorHandler registered at that time runs (lines 207-212)
SendError(m) ==
  /\ m \in 1..MaxRequests
  /\ req[m].st # "unsent" /\ ~req[m].answered
  /\ req' = [r \in 1..MaxRequests |->
               LET q == IF r = m THEN [req[r] EXCEPT !.answered = TRUE] ELSE req[r]
               IN IF q.onError /\ q.id = req[m].id
                  THEN Settle([q EXCEPT !.onError = FALSE], "rejected", m)
                  ELSE q]

\* the timer of call r fires, lines 227-232
RequestTimeout(r) ==
  /\ r \in 1..MaxRequests
  /\ req[r].timer
  /\ now - req[r].id >= requestTimeout
  /\ req' = [req EXCEPT ![r] =
               Settle([@ EXCEPT !.timer = FALSE, !.onResponse = FALSE, !.onError = FALSE],
                      "timedout", r)]

TransportInit == req = [r \in 1..MaxRequests |-> NoRequest]


vars == <<gatewayVars, toolVars, chat, httpVars, req>>

Init == GatewayInit /\ ToolInit /\ ChatInit /\ HttpInit /\ TransportInit

\* concurrent invocations of callMCPTool on one gateway process
Next == (\E t \in Tasks : GatewayStep(t)) /\ UNCHANGED <<toolVars, chat, httpVars, req>>

Spec == Init /\ [][Next]_vars

\* one invocation at a time
NextSeq == (\E t \in SeqTasks : GatewayStep(t)) /\ UNCHANGED <<toolVars, chat, httpVars, req>>

SpecSeq == Init /\ [][NextSeq]_vars

\* a provider on which the first session id it issued expires: from some
\* moment on it answers every tools/call that carries that id with HTTP 400;
\* it answers every other tools/call with a result
ExpiryAnswers(t) ==
  {r \in {"result", "status400"} :
     /\ r = "status400" => calls[t].reqSid = Sid(1)
     /\ r = "result" => ~(calls[t].reqSid = Sid(1) /\ everRejected)}

\* the provider settles the request task t is waiting for
ExpiryResponds(t) ==
  \/ InitializeResponds(t, Sid(nextId), TRUE)
  \/ \E r \in ExpiryAnswers(t) : ToolsCallResponds(t, r)

\* concurrent invocations while the session expires; every handshake
\* succeeds, and every request is answered at some time
NextExpiry ==
  /\ \E t \in Tasks : StartCall(t) \/ ExpiryResponds(t)
  /\ UNCHANGED <<toolVars, chat, httpVars, req>>

SpecExpiry ==
  Init /\ [][NextExpiry]_vars
       /\ \A t \in Tasks : WF_vars(ExpiryResponds(t) /\ UNCHANGED <<toolVars, chat, httpVars, req>>)

\* the dispatcher scenario: every tool name with missing, empty and
\* well-formed arguments, one call at a time
NextTools ==
  /\ \/ \E t \in ToolTasks, name \in ToolNames \cup {UnknownTool} :
          \E args \in ArgsFor(name) :
            ntool < MaxDispatchCalls /\ CallTool(t, name, args)
     \/ \E t \in ToolTasks, name \in RegisteredTools :
          \E args \in RegisteredArgsFor(name) :
            ntool < MaxDispatchCalls /\ CallRegisteredTool(t, name, args)
     \/ \E t \in ToolTasks : ntool < MaxDispatchCalls /\ ListTools(t)
     \/ \E t \in ToolTasks : ToolStep(t)
  /\ UNCHANGED <<gatewayVars, chat, httpVars, req>>

SpecTools == Init /\ [][NextTools]_vars

\* the cache scenario: get_weather calls for a city, one at a time, while
\* time passes and the cache may be cleared
NextCache ==
  /\ \/ \E t \in ToolTasks, city \in Cities :
          ntool < MaxToolCalls
            /\ CallTool(t, "get_weather", [NoArgs EXCEPT !.city = Str(city)])
     \/ \E t \in ToolTasks : ToolStep(t)
     \/ \E d \in TickSteps : Tick(d)
     \/ ClearCache
  /\ UNCHANGED <<gatewayVars, chat, httpVars, req>>

SpecCache == Init /\ [][NextCache]_vars

\* two get_weather calls for the same city may be in flight at once on the
\* one WeatherService, while time passes
NextConcurrent ==
  /\ \/ \E t \in ConcurrentTasks :
          ntool < MaxConcurrentCalls
            /\ CallTool(t, "get_weather", [NoArgs EXCEPT !.city = Str("Paris")])
     \/ \E t \in ConcurrentTasks : ToolStep(t)
     \/ \E d \in TickSteps : Tick(d)
  /\ UNCHANGED <<gatewayVars, chat, httpVars, req>>

SpecConcurrent == Init /\ [][NextConcurrent]_vars

\* get_weather and get_weather_by_coords calls for the same coordinates may
\* be in flight at once on the one WeatherService
NextShared ==
  /\ \/ \E t \in ConcurrentTasks :
          ntool < MaxConcurrentCalls
            /\ CallTool(t, "get_weather", [NoArgs EXCEPT !.city = Str("Paris")])
     \/ \E t \in ConcurrentTasks :
          ntool < MaxConcurrentCalls
            /\ CallTool(t, "get_weather_by_coords",
                        [NoArgs EXCEPT !.latitude = Num(LocationOf("Paris").latitude),
                                       !.longitude = Num(LocationOf("Paris").longitude)])
     \/ \E t \in ConcurrentTasks : ToolStep(t)
  /\ UNCHANGED <<gatewayVars, chat, httpVars, req>>

SpecShared == Init /\ [][NextShared]_vars

\* the chat scenario: /api/chat requests, one at a time, against a provider
\* that may answer each request of the gateway in any way
NextChat ==
  /\ \/ \E t \in SeqTasks, message \in ChatMessages : PostChat(t, message)
     \/ \E t \in SeqTasks, cityMatch \in extractCityFromMessage : CityExtracted(t, cityMatch)
     \/ \E t \in SeqTasks : ChatToolSettles(t)
  /\ UNCHANGED <<toolVars, httpVars, req>>

SpecChat == Init /\ [][NextChat]_vars

\* the tool-serving HTTP server: requests with every kind of session header,
\* handled one at a time; time passes
NextHttp ==
  \/ /\ \/ Start
        \/ \E hdr \in SessionHeaders, body \in McpBodies, accepted \in BOOLEAN :
             PostMcp(hdr, body, "Paris", accepted)
        \/ \E method \in {"GET", "DELETE"}, hdr \in SessionHeaders :
             SessionRequest(method, hdr)
        \/ Close
     /\ UNCHANGED <<gatewayVars, toolVars, chat, req>>
  \/ /\ \E d \in TickSteps : Tick(d)
     /\ UNCHANGED <<gatewayVars, chat, httpVars, req>>

SpecHttp == Init /\ [][NextHttp]_vars

\* the transport scenario: sendRequest calls, the server's answers in any
\* order, timers, and the clock
NextTransport ==
  \/ /\ \/ \E r \in 1..MaxRequests : SendRequest(r)
        \/ \E m \in 1..MaxRequests : SendResponse(m)
        \/ \E m \in 1..MaxRequests : SendError(m)
        \/ \E r \in 1..MaxRequests : RequestTimeout(r)
     /\ UNCHANGED <<gatewayVars, toolVars, chat, httpVars>>
  \/ /\ \E d \in TickSteps : Tick(d)
     /\ UNCHANGED <<gatewayVars, chat, httpVars, req>>

SpecTransport == Init /\ [][NextTransport]_vars

(***************************************************************************)
(* Claims about the Chat Gateway MCP client                                *)
(***************************************************************************)

\* C1: one callMCPTool invocation sends at most two tools/call requests and
\* performs at most one re-initialization, whatever the provider answers.
C1_AtMostOneRetry ==
  \A t \in Tasks : calls[t].sent <= 2 /\ calls[t].reinits <= 1

\* C3: every tools/call request in flight carries an mcp-session-id header,
\* and that header is the stored, non-empty session id.
C3_ToolsCallCarriesSessionId ==
  \A t \in SeqTasks :
    calls[t].pc = "awaitCall" =>
      /\ calls[t].reqSid \in SessionIds
      /\ calls[t].reqSid = mcpSessionId

\* C7: an invocation that started with a stored id, had its first tools/call
\* (carrying that id) answered 400 and its second tools/call answered with a
\* result, returns the result after exactly one re-initialization handshake,
\* the second request carrying the freshly issued id.
C7_RetrySucceedsAfterOneReinit ==
  \A t \in SeqTasks :
    ( /\ calls[t].pc = "done"
      /\ Truthy(calls[t].startSid)
      /\ calls[t].firstSid = calls[t].startSid
      /\ calls[t].rej = 1
      /\ calls[t].sent = 2
      /\ calls[t].reqSid \in SessionIds
      /\ calls[t].answer = "result" )
    => /\ calls[t].outcome = "result"
       /\ calls[t].reinits = 1
       /\ calls[t].hs = 1
       /\ calls[t].reqSid # calls[t].startSid
       /\ calls[t].reqSid = Sid(nextId - 1)

C7_Witness ==
  \E t \in SeqTasks :
    /\ calls[t].pc = "done"
    /\ calls[t].outcome = "result"
    /\ Truthy(calls[t].startSid)
    /\ calls[t].firstSid = calls[t].startSid
    /\ calls[t].rej = 1
    /\ calls[t].reinits = 1
    /\ calls[t].reqSid \in SessionIds

\* a step in which task t enters callMCPTool: a fresh invocation, or the
\* recursive call of the catch block
EntersCall(t) ==
  /\ calls'[t] # calls[t]
  /\ \/ calls[t].pc \in {"idle", "done"}
     \/ calls'[t].rej > calls[t].rej

\* the stored session id that initializeMCPSession finds in that step
EntrySid(t) ==
  IF calls[t].pc \in {"idle", "done"} THEN mcpSessionId ELSE mcpSessionId'

C2_DispatcherNeverThrows ==
  \A t \in ToolTasks :
    /\ tool[t].pc # "threw"
    /\ (tool[t].pc = "done" /\ tool[t].impl = "callTool" /\ tool[t].error # <<>>) =>
         /\ tool[t].result.isError = TRUE
         /\ Len(tool[t].result.content) = 1
         /\ tool[t].result.content[1].type = "text"
         /\ \E i \in 1..Len(tool[t].result.content[1].text) :
              SubSeq(tool[t].result.content[1].text, i,
                     Len(tool[t].result.content[1].text)) = tool[t].error

C2_Witness ==
  \E t \in ToolTasks :
    /\ tool[t].pc = "done"
    /\ tool[t].impl = "callTool"
    /\ tool[t].name \in ToolNames
    /\ ~tool[t].args.present
    /\ tool[t].error # <<>>

\* C4: a get_weather call whose arguments object is empty sends no request
\* to the Weather Data Source, and ends with an isError result whose text
\* names the missing parameter, city.
C4_MissingCityRejectedBeforeFetch ==
  \A t \in ToolTasks :
    (tool[t].name = "get_weather" /\ tool[t].args = NoArgs) =>
      /\ tool[t].geoFetch = 0
      /\ tool[t].fcFetch = 0
      /\ tool[t].pc = "done"
      /\ tool[t].result.isError = TRUE
      /\ \E i \in DOMAIN tool[t].result.content[1].text :
           tool[t].result.content[1].text[i] = "city"

\* C9: a call that names a tool the dispatcher does not know ends, for any
\* arguments, with an isError result whose text carries the unknown name; no
\* handler runs and no request goes to the Weather Data Source or to the
\* Text-Completion Service.
C9_UnknownToolRejected ==
  \A t \in ToolTasks :
    (tool[t].impl = "callTool"
       /\ tool[t].name \notin {listTools[i] : i \in DOMAIN listTools}) =>
      /\ tool[t].pc = "done"
      /\ tool[t].result.isError = TRUE
      /\ Len(tool[t].result.content) = 1
      /\ \E i \in DOMAIN tool[t].result.content[1].text :
           tool[t].result.content[1].text[i] = tool[t].name
      /\ tool[t].handler = "none"
      /\ tool[t].geoFetch = 0 /\ tool[t].fcFetch = 0 /\ tool[t].claude = 0

C9_Witness ==
  \E t \in ToolTasks :
    /\ tool[t].pc = "done"
    /\ tool[t].impl = "callTool"
    /\ tool[t].name = UnknownTool
    /\ tool[t].args.present
    /\ tool[t].args.city = Str("Paris")
    /\ tool[t].result.isError

\* C10: every result a tool call ends with, success or error, has a content
\* list with at least one block of type text.
C10_ResultHasTextContent ==
  \A t \in ToolTasks :
    (tool[t].pc = "done" /\ tool[t].impl \in {"callTool", "registerTool"}) =>
      /\ Len(tool[t].result.content) >= 1
      /\ \E i \in DOMAIN tool[t].result.content :
           tool[t].result.content[i].type = "text"

C10_Witness ==
  \E t \in ToolTasks :
    /\ tool[t].pc = "done"
    /\ tool[t].impl = "registerTool"
    /\ tool[t].result.isError
    /\ Len(tool[t].result.content) = 1
    /\ prev.name \in ToolNames
    /\ ~prev.isError

\* the call that just ended and the one before it are get_weather calls for
\* the same city, both returned data, and clearCache did not run since the
\* earlier call started
SameCityPair(t) ==
  /\ tool[t].pc = "done"
  /\ tool[t].name = "get_weather" /\ prev.name = "get_weather"
  /\ tool[t].city = prev.city
  /\ ~tool[t].result.isError /\ ~prev.isError
  /\ ~cleared.prev /\ ~cleared.cur

\* the later call returned the data of the earlier one without a request
ServedFromCache(t) ==
  /\ tool[t].result.weatherData = prev.weatherData
  /\ tool[t].geoFetch = 0
  /\ tool[t].fcFetch = 0

\* C5 as stated: of two sequential get_weather calls for the same city, the
\* second starting less than the TTL after the first, the second returns the
\* data of the first and sends no request to the Weather Data Source.
C5_SecondCallWithinWindowOfFirst ==
  \A t \in ToolTasks :
    (SameCityPair(t) /\ tool[t].startedAt - prev.startedAt < cacheTimeout) =>
      ServedFromCache(t)

\* C5 amended: of two sequential get_weather calls for the same city, the
\* second starting while the cache entries the first call returned are
\* younger than their TTL (ten minutes for the forecast, sixty for the
\* geocoding), the second returns the data of the first and sends no request
\* to the Weather Data Source.
C5_SecondCallWithinTtlOfEntries ==
  \A t \in ToolTasks :
    (SameCityPair(t) /\ tool[t].startedAt - prev.fcTs < cacheTimeout
                     /\ tool[t].startedAt - prev.geoTs < geocodeTimeout) =>
      ServedFromCache(t)

C5_Witness ==
  \E t \in ToolTasks :
    /\ SameCityPair(t)
    /\ tool[t].startedAt > prev.startedAt
    /\ tool[t].startedAt - prev.fcTs < cacheTimeout
    /\ tool[t].geoLook = "hit" /\ tool[t].fcLook = "hit"
    /\ prev.weatherData.reading \in Readings

\* C6: a cached geocoding or forecast value is returned only while its age is
\* strictly below the TTL of its category; a lookup that finds an entry of
\* age TTL or more sends a new request to the Weather Data Source.
C6_NoStaleCacheHit ==
  \A t \in ToolTasks :
    /\ tool[t].geoLook = "hit" => tool[t].geoAge < geocodeTimeout /\ tool[t].geoFetch = 0
    /\ tool[t].fcLook = "hit" => tool[t].fcAge < cacheTimeout /\ tool[t].fcFetch = 0
    /\ tool[t].geoLook = "stale" => tool[t].geoAge >= geocodeTimeout /\ tool[t].geoFetch = 1
    /\ tool[t].fcLook = "stale" => tool[t].fcAge >= cacheTimeout /\ tool[t].fcFetch = 1

C6_Witness ==
  \E t \in ToolTasks :
    /\ tool[t].fcLook = "stale"
    /\ tool[t].fcAge = cacheTimeout
    /\ tool[t].fcFetch = 1
    /\ tool[t].geoLook = "hit"
    /\ tool[t].geoAge > 0

\* the three handlers that render weather data
WeatherHandlers == {"handleGetWeather", "handleGetForecast", "handleGetWeatherByCoords"}

\* the call ran a weather handler with its parameters supplied, the weather
\* data was obtained, and no completion was available: either no
\* ClaudeService was constructed or the completion request failed
FallbackCase(c) ==
  /\ c.pc = "done"
  /\ c.handler \in WeatherHandlers
  /\ c.gotData
  /\ c.handler = "handleGetWeatherByCoords" =>
       c.latitude # UNDEFINED /\ c.longitude # UNDEFINED
  /\ ~claudeService \/ c.claudeOk = "failed"

\* C11: when no ClaudeService is constructed, or the completion request
\* fails, a get_weather, get_forecast or get_weather_by_coords call that
\* obtained its weather data ends with a result that is not an error and
\* whose single text block is a non-empty template rendering of that data.
C11_FallbackRendering ==
  \A t \in ToolTasks :
    FallbackCase(tool[t]) =>
      /\ tool[t].result.isError = FALSE
      /\ Len(tool[t].result.content) = 1
      /\ tool[t].result.content[1].type = "text"
      /\ tool[t].result.content[1].text # <<>>
      /\ tool[t].result.content[1].text # Completion
      /\ tool[t].result.content[1].text[1] \in
           {"**Current Weather in ", "**7-Day Weather Forecast for ",
            "The current weather in ", "The forecast for "}
      /\ (tool[t].impl = "callTool" /\ ~claudeService) =>
           tool[t].result.content[1].text \in
             {formatCurrentWeatherForChat(tool[t].result.weatherData),
              formatForecastForChat(tool[t].result.weatherData)}

C11_Witness ==
  \E t \in ToolTasks :
    /\ FallbackCase(tool[t])
    /\ claudeService
    /\ tool[t].claude = 1
    /\ tool[t].handler = "handleGetWeatherByCoords"
    /\ tool[t].result.content[1].text[1] = "The current weather in "

(***************************************************************************)
(* Further claims about the Chat Gateway MCP client                        *)
(***************************************************************************)

\* C12: an invocation whose tools/call request got no response, or whose
\* handshake failed (also a handshake made after an invalidation), has ended
\* with an error for its caller and has no request in flight: it sent nothing
\* after the failure.
C12_ConnectionFailureIsFatal ==
  \A t \in SeqTasks :
    (calls[t].answer = "noResponse" \/ calls[t].initFailed) =>
      /\ calls[t].pc = "done"
      /\ calls[t].outcome = "error"

C12_Witness ==
  \E t \in SeqTasks :
    /\ calls[t].pc = "done"
    /\ calls[t].initFailed
    /\ calls[t].rej = 1
    /\ calls[t].reinits = 1
    /\ calls[t].sent = 1
    /\ calls[t].outcome = "error"

\* both tasks run an invocation whose first tools/call carried the first
\* session id, and both have had that request rejected
BothRejected ==
  \A t \in Tasks : calls[t].firstSid = Sid(1) /\ calls[t].rej >= 1

\* C13: when two invocations were in flight on the session id that expired,
\* each re-initializes once on its own rejection (two handshakes in total,
\* never more), sends its retry on the id its own handshake returned, and
\* ends with a tool result, unless a handshake waits for an id when the
\* provider has issued MaxIds of them.
C13_BothRetryIndependently ==
  /\ [](BothRejected =>
          \A t \in Tasks :
            /\ calls[t].rej = 1 /\ calls[t].reinits = 1 /\ calls[t].hs <= 2
            /\ calls[t].pc = "awaitCall" => calls[t].reqSid \in SessionIds \ {Sid(1)}
            /\ calls[t].pc = "done" => calls[t].outcome = "result")
  /\ \A t \in Tasks :
       BothRejected ~> (calls[t].pc = "done" /\ calls[t].outcome = "result"
                          /\ calls[t].rej = 1 /\ calls[t].reinits = 1)
                       \/ (nextId > MaxIds /\ \E u \in Tasks : calls[u].pc = "awaitInit")

C13_Witness ==
  /\ BothRejected
  /\ \A t \in Tasks : calls[t].pc = "done" /\ calls[t].outcome = "result"
  /\ calls["A"].reqSid # calls["B"].reqSid
  /\ hsTotal = 3

(***************************************************************************)
(* Further claims about the weather service cache and the tool list        *)
(***************************************************************************)

\* C14: the weather TTL is ten minutes and the geocoding TTL six times that;
\* a get_weather call that finds the entries of its city at least 10 and
\* less than 60 minutes old takes the geocoding result from the cache
\* without a request and sends one new request to the forecast endpoint.
C14_TwoTtlCategories ==
  /\ cacheTimeout = 600000
  /\ geocodeTimeout = 6 * cacheTimeout
  /\ \A t \in ToolTasks :
       (/\ tool[t].name = "get_weather"
        /\ tool[t].geoLook \in {"hit", "stale"}
        /\ tool[t].geoAge >= 600000 /\ tool[t].geoAge < 3600000) =>
         /\ tool[t].geoLook = "hit"
         /\ tool[t].geoFetch = 0
         /\ (/\ tool[t].fcLook \in {"hit", "stale"}
             /\ tool[t].fcAge >= 600000 /\ tool[t].fcAge < 3600000) =>
              /\ tool[t].fcLook = "stale"
              /\ tool[t].fcFetch = 1

C14_Witness ==
  \E t \in ToolTasks :
    /\ tool[t].pc = "done"
    /\ tool[t].name = "get_weather" /\ prev.name = "get_weather"
    /\ tool[t].city = prev.city
    /\ ~tool[t].result.isError
    /\ tool[t].geoLook = "hit" /\ tool[t].geoAge >= 600000
    /\ tool[t].fcLook = "stale" /\ tool[t].fcAge < 3600000
    /\ tool[t].geoFetch = 0 /\ tool[t].fcFetch = 1

\* C15: a tools/list answer names each tool once, names exactly the tools
\* the dispatcher has a case for, and is the same on every request; every
\* listed name, and every name setupTools registers, is routed to a handler
\* and never ends in the unknown-tool error; setupTools registers no name
\* twice.
C15_ListMatchesDispatch ==
  /\ \A i, j \in DOMAIN setupTools : i # j => setupTools[i] # setupTools[j]
  /\ {setupTools[i] : i \in DOMAIN setupTools} = RegisteredTools
  /\ \A t \in ToolTasks :
       /\ (tool[t].pc = "done" /\ tool[t].name = "tools/list") =>
            /\ \A i, j \in DOMAIN tool[t].listed :
                 i # j => tool[t].listed[i] # tool[t].listed[j]
            /\ {tool[t].listed[i] : i \in DOMAIN tool[t].listed} = ToolNames
            /\ prev.name = "tools/list" => prev.listed = tool[t].listed
       /\ (tool[t].impl = "callTool"
             /\ tool[t].name \in {listTools[i] : i \in DOMAIN listTools}) =>
            /\ tool[t].args.present => tool[t].handler # "none"
            /\ tool[t].error # <<>> => tool[t].error[1] # "Unknown tool: "
       /\ (tool[t].impl = "registerTool"
             /\ tool[t].name \in {setupTools[i] : i \in DOMAIN setupTools}) =>
            tool[t].handler # "none"

C15_Witness ==
  \E t \in ToolTasks :
    /\ tool[t].pc = "done"
    /\ tool[t].name = "tools/list"
    /\ Len(tool[t].listed) = 5
    /\ prev.name = "tools/list"

\* the call ran handleGetWeather or handleGetForecast of part_003
UnitCase(c) ==
  /\ c.impl = "registerTool"
  /\ c.handler \in {"handleGetWeather", "handleGetForecast"}

\* the text block of the result of c is a rendering of the weather data
\* (not a completion) that names the unit " C"
RendersCelsius(c) ==
  /\ c.pc = "done" /\ ~c.result.isError
  /\ c.result.content[1].text # Completion
  /\ \E i \in DOMAIN c.result.content[1].text : c.result.content[1].text[i] = " C"

\* C16: a call of handleGetWeather or handleGetForecast made with the
\* Fahrenheit flag set works on weather data in Fahrenheit and does not
\* render it in Celsius; a call with the flag unset works on data in Celsius.
C16_UnitFollowsFlag ==
  \A t \in ToolTasks :
    UnitCase(tool[t]) =>
      /\ tool[t].obj # 0 =>
           heap[tool[t].obj].units = IF tool[t].useFahrenheit THEN "fahrenheit" ELSE "celsius"
      /\ tool[t].useFahrenheit => ~RendersCelsius(tool[t])

\* C18: the stored session id goes from unset to set only through a
\* handshake that succeeded: when initializeMCPSession has thrown, the
\* stored id is still unset once the invocation has failed
C18_FailedHandshakeLeavesIdUnset ==
  \A t \in SeqTasks :
    (calls[t].pc = "done" /\ calls[t].initFailed) => ~Truthy(mcpSessionId)

\* a step in which task t handles an HTTP 400 answer to a tools/call that it
\* sent with an id other than the id stored now, the stored id being set
LateRejection(t) ==
  /\ calls[t].pc = "awaitCall"
  /\ calls'[t].rej = calls[t].rej + 1
  /\ Truthy(mcpSessionId)
  /\ mcpSessionId # calls[t].reqSid

\* C19 (as stated): a rejection of a call sent with session id S discards
\* only S: when the stored id is by then a different, freshly issued id of a
\* concurrent call, that id is kept and the late rejection triggers no
\* handshake
C19_LateRejectionKeepsNewerId ==
  [][\A t \in Tasks :
       LateRejection(t) => /\ mcpSessionId' = mcpSessionId
                           /\ hsTotal' = hsTotal]_vars

\* C19 (amended): a rejection discards whatever id is stored when it is
\* handled, a newer id of a concurrent call included, and the rejected call
\* performs a handshake of its own; the concurrent call is left as it is
C19_RejectionDiscardsStoredId ==
  [][\A t \in Tasks :
       (calls[t].pc = "awaitCall" /\ calls'[t].rej = calls[t].rej + 1) =>
         /\ mcpSessionId' = NULL
         /\ calls'[t].pc = "awaitInit"
         /\ hsTotal' = hsTotal + 1
         /\ \A u \in Tasks \ {t} : calls'[u] = calls[u]]_vars

\* a late rejection has discarded the second id: the other task sent its
\* retry on it, and this task waits for a handshake of its own
C19_Witness ==
  \E t \in Tasks : \E u \in Tasks \ {t} :
    /\ calls[t].pc = "awaitInit" /\ calls[t].rej = 1
    /\ calls[u].rej = 1 /\ calls[u].reqSid = Sid(2)
    /\ mcpSessionId = NULL

\* the larger of two times
Later(a, b) == IF a >= b THEN a ELSE b

\* the call's own geocoding request was answered and its answer cached
GeoFetched(c) ==
  /\ c.geoFetch = 1
  /\ c.pc \in {"forecast", "claude", "done"}
  /\ c.error = <<>> \/ c.error[1] # "Failed to geocode "

\* the locations the call's geocoding request returned
LocationsSeen(c) == IF c.location = NoLocation THEN <<>> ELSE <<c.location>>

\* the call's own forecast request was answered and its answer cached
ForecastFetched(c) ==
  c.fcFetch = 1 /\ c.pc = "done" /\ ~c.result.isError

\* task t starts a call in this step
StartsCall(t) == tool[t].pc \in {"idle", "done"} /\ tool'[t].pc # tool[t].pc

\* the cache is written only in the step that settles a call's request
WriteEndsFetch ==
  cache' # cache =>
    \E t \in ConcurrentTasks :
      /\ tool[t].pc \in {"geocode", "forecast"}
      /\ tool'[t].pc # tool[t].pc

\* a call that starts while the cache has no fresh entry for its key sends
\* its own request, whatever the other call is doing
MissStartsFetch ==
  \A t \in ConcurrentTasks :
    (StartsCall(t)
       /\ ~CacheLookup(cache, GeocodeKey(Str("Paris"), Num(1)), geocodeTimeout, now).hit)
      => tool'[t].pc = "geocode" /\ tool'[t].geoFetch = 1

\* C20: within one tool call the cache check, the provider fetch and the
\* cache write happen in that order; identical requests in flight are not
\* de-duplicated, so a call that finds no fresh entry fetches even while
\* another call is fetching the same key; after two such calls have
\* completed the key has one entry, written by the fetch that completed last
C20_CheckFetchWriteNoDedup ==
  /\ [](\A t \in ConcurrentTasks :
          /\ tool[t].pc = "geocode" => tool[t].geoLook \in {"absent", "stale"}
          /\ tool[t].pc = "forecast" => tool[t].fcLook \in {"absent", "stale"}
          /\ tool[t].geoLook = "hit" => tool[t].geoFetch = 0
          /\ tool[t].fcLook = "hit" => tool[t].fcFetch = 0)
  /\ [][WriteEndsFetch /\ MissStartsFetch]_vars
  /\ [](\A t \in ConcurrentTasks : \A u \in ConcurrentTasks \ {t} :
          /\ (GeoFetched(tool[t]) /\ GeoFetched(tool[u])) =>
               LET key == GeocodeKey(Str("Paris"), Num(1))
               IN /\ key \in DOMAIN cache
                  /\ cache[key].timestamp = Later(tool[t].geoTs, tool[u].geoTs)
                  /\ tool[t].geoTs > tool[u].geoTs =>
                       cache[key].data = LocationsSeen(tool[t])
                  /\ cache[key].data \in {LocationsSeen(tool[t]), LocationsSeen(tool[u])}
          /\ (ForecastFetched(tool[t]) /\ ForecastFetched(tool[u])) =>
               LET key == ForecastKey(tool[t].latitude, tool[t].longitude, tool[t].days)
               IN /\ key \in DOMAIN cache
                  /\ cache[key].timestamp = Later(tool[t].fcTs, tool[u].fcTs)
                  /\ heap[cache[key].data].fetchedAt = cache[key].timestamp
                  /\ tool[t].fcTs > tool[u].fcTs =>
                       heap[cache[key].data].reading = tool[t].result.weatherData.reading)

\* both calls missed the same uncached key, both fetched, and both have
\* completed at different times with different answers
C20_Witness ==
  /\ \A t \in ConcurrentTasks :
       /\ tool[t].geoLook = "absent" /\ tool[t].fcLook = "absent"
       /\ GeoFetched(tool[t]) /\ ForecastFetched(tool[t])
  /\ tool["T"].fcTs > tool["U"].fcTs
  /\ tool["T"].result.weatherData.reading # tool["U"].result.weatherData.reading

\* the text is not the empty string
NonEmptyText(text) == \E i \in DOMAIN text : text[i] # ""

\* the request has been answered once, with a JSON body whose response text
\* is not empty; the status is 500 exactly when the handler threw
AnsweredOnce(ch) ==
  /\ ch.responses = 1
  /\ NonEmptyText(ch.body.response)
  /\ ch.status \in {200, 500}
  /\ ch.status = 500 <=> ch.message = UNDEFINED

C21_WeatherDataCarriesOwnLocation ==
  \A t \in ConcurrentTasks :
    (/\ tool[t].pc = "done"
     /\ tool[t].impl = "callTool"
     /\ tool[t].name \in {"get_weather", "get_forecast"}
     /\ ~tool[t].result.isError)
      => tool[t].result.weatherData.location = LocationOf(tool[t].city[2])

\* C22: the response cache is process-wide: an entry written while serving
\* one session is visible to tool calls on any other session, so a
\* get_weather call for a city whose entries some WeatherService of the
\* process holds within their TTL does not contact the Weather Data Source
C22_CacheSharedAcrossSessions ==
  (last.req = "tools/call" /\ last.routed # 0 /\ last.freshInProcess) => ~last.fetched

\* what C27 states of a POST /mcp request with header hdr and body `body`
PostMcpEffect(hdr, body) ==
  IF hdr \in DOMAIN transports
  THEN /\ last'.routed = transports[hdr]
       /\ transports' = transports
       /\ DOMAIN tr' = DOMAIN tr
  ELSE IF hdr = UNDEFINED /\ body = "initialize"
  THEN /\ last'.created \notin DOMAIN tr
       /\ DOMAIN tr' = DOMAIN tr \cup {last'.created}
  ELSE /\ last'.status = 400 /\ last'.code = -32000
       /\ transports' = transports
       /\ tr' = tr

\* C27: a POST /mcp request is routed to the stored transport when it
\* carries the id of a stored session, creates a transport and server
\* instance only when it carries no id and its body is an initialize
\* request, and in every other case is answered with HTTP 400 and JSON-RPC
\* error -32000, the session map unchanged and no transport created
C27_PostMcpRouting ==
  [][\A hdr \in SessionHeaders, body \in McpBodies, accepted \in BOOLEAN :
       PostMcp(hdr, body, "Paris", accepted) => PostMcpEffect(hdr, body)]_vars

\* the transports that have been initialized and not closed
OpenTransports == {n \in DOMAIN tr : tr[n].state = "open"}

\* the session map holds exactly the open transports, each under its own id
SessionMapConsistent ==
  /\ \A k \in DOMAIN transports :
       tr[transports[k]].sessionId = k /\ transports[k] \in OpenTransports
  /\ \A n \in OpenTransports : Lookup(transports, tr[n].sessionId) = [kind |-> "own", tid |-> n]
  /\ HealthSessions = Cardinality(OpenTransports)

\* C28: every key of the session map is the session id of the transport
\* stored under it, which is initialized and not closed; sessions enter the
\* map when their initialization completes and leave it when their transport
\* closes; the health endpoint counts the open sessions; after close() the
\* map is empty
C28_SessionMapInvariant ==
  /\ SessionMapConsistent
  /\ httpServer = "closed" => transports = EmptyMap

\* close() has run on a server that had stored a session
C28_Witness ==
  /\ httpServer = "closed"
  /\ \E n \in DOMAIN tr : tr[n].state = "closed" /\ tr[n].sessionId = Uuid(n)

\* C25: the optional days parameter determines the forecast that is
\* fetched: get_forecast with days = d asks the Weather Data Source for d
\* days and without days for its declared default of 7;
\* get_weather_by_coords without days asks for its declared default of 1
C25_DaysSelectsForecast ==
  \A t \in ToolTasks :
    (tool[t].impl = "callTool" /\ tool[t].fcLook # "none") =>
      /\ tool[t].name = "get_forecast" =>
           tool[t].days = Default(tool[t].args.days, Num(7))
      /\ tool[t].name = "get_weather_by_coords" =>
           tool[t].days = Default(tool[t].args.days, Num(1))

\* task t's geocoding request is answered in this step, and answered well
GeocodeSucceeds(t) ==
  /\ tool[t].pc = "geocode" /\ tool'[t].pc # "geocode"
  /\ tool'[t].error = <<>> \/ tool'[t].error[1] # "Failed to geocode "

\* task t's forecast request is answered in this step, and answered well
ForecastSucceeds(t) ==
  /\ tool[t].pc = "forecast" /\ tool'[t].pc # "forecast"
  /\ tool'[t].gotData

\* the cache after the step is the cache before it with key set at `now`
SetsOnly(key) ==
  /\ DOMAIN cache' = DOMAIN cache \cup {key}
  /\ cache'[key].timestamp = now
  /\ \A k \in DOMAIN cache \ {key} : cache'[k] = cache[k]

\* what one step does to the cache map
CacheFrame ==
  /\ \A t \in ToolTasks :
       /\ GeocodeSucceeds(t) =>
            /\ SetsOnly(GeocodeKey(tool[t].city, tool[t].count))
            /\ cache'[GeocodeKey(tool[t].city, tool[t].count)].data = LocationsSeen(tool'[t])
       /\ ForecastSucceeds(t) =>
            LET key == ForecastKey(tool[t].latitude, tool[t].longitude, tool[t].days)
            IN /\ SetsOnly(key)
               /\ heap'[cache'[key].data].fetchedAt = now
  /\ cache' # cache =>
       \/ cache' = EmptyMap /\ cleared'.cur /\ tool' = tool
       \/ \E t \in ToolTasks : GeocodeSucceeds(t) \/ ForecastSucceeds(t)
  /\ ~(DOMAIN cache \subseteq DOMAIN cache') => cache' = EmptyMap /\ tool' = tool

\* C23: the cache map is changed only by a successful provider fetch, which
\* sets exactly that call's key to the fetched value with the current
\* timestamp, overwriting any prior entry, and by clearCache, which removes
\* every entry; a hit, a stale lookup and a failed fetch leave it unchanged,
\* so the set of keys shrinks only through clearCache
C23_CacheFrame == [][CacheFrame]_vars

\* a fetch has overwritten a stale forecast entry, its geocoding was served
\* from the cache
C23_Witness ==
  \E t \in ToolTasks :
    /\ tool[t].geoLook = "hit" /\ tool[t].fcLook = "stale"
    /\ ForecastFetched(tool[t])
    /\ cache[ForecastKey(tool[t].latitude, tool[t].longitude, tool[t].days)].timestamp = now

\* the text contains the piece
Mentions(text, piece) == \E i \in DOMAIN text : text[i] = piece

\* C26: when geocoding a city returns no location, get_weather and
\* get_forecast request no forecast and return an error result whose text
\* says that the location could not be found and names the city
C26_UnknownCityIsError ==
  \A t \in ToolTasks :
    (tool[t].handler \in {"handleGetWeather", "handleGetForecast"} /\ tool[t].located = 0) =>
      /\ tool[t].fcFetch = 0 /\ tool[t].fcLook = "none" /\ ~tool[t].gotData
      /\ tool[t].pc = "done"
      /\ tool[t].result.isError
      /\ Len(tool[t].result.content) = 1
      /\ Mentions(tool[t].result.content[1].text, "Could not find location for \"")
      /\ Mentions(tool[t].result.content[1].text, ToStr(tool[t].city))

\* both dispatchers have answered a call whose geocoding found nothing
C26_Witness ==
  \E t \in ToolTasks :
    /\ tool[t].pc = "done" /\ tool[t].located = 0
    /\ tool[t].handler = "handleGetForecast" /\ tool[t].impl = "registerTool"
    /\ prev.name = "get_weather" /\ prev.isError /\ prev.city = Str("Paris")

\* C29: each sendRequest call settles exactly once: it resolves with the
\* result of the response to its own request, or rejects with the error
\* answered to its own request, or rejects with 'Request timeout' after
\* thirty seconds; the response or timeout of one request never settles
\* another pending request, whatever the timing of the two
C29_RequestsSettleIndependently ==
  \A r \in 1..MaxRequests :
    /\ req[r].settles <= 1
    /\ req[r].st \in {"resolved", "rejected", "timedout"} <=> req[r].settles = 1
    /\ req[r].st \in {"resolved", "rejected"} => req[r].value = r
    /\ req[r].st = "timedout" => req[r].value = r /\ now - req[r].id >= requestTimeout

\* C30: detectFahrenheitPreference is true exactly when the lower-cased
\* message contains a keyword of the fixed list, and false for an empty or
\* missing message; a message that expresses no Fahrenheit preference, such
\* as 'forecast for Paris', is classified as not wanting Fahrenheit and is
\* rendered in Celsius
C30_NoUnitMeansCelsius ==
  /\ ~detectFahrenheitPreference(UNDEFINED) /\ ~detectFahrenheitPreference(Str(<<>>))
  /\ \A t \in ToolTasks :
       (tool[t].impl = "registerTool" /\ tool[t].name = "ask_weather_question"
          /\ tool[t].args.question \in {Str(q) : q \in NoUnitQuestions}) =>
         /\ tool[t].useFahrenheit = detectFahrenheitPreference(tool[t].args.question)
         /\ ~tool[t].useFahrenheit
         /\ tool[t].pc = "done" /\ tool[t].gotData => RendersCelsius(tool[t])

\* the lower-cased message contains the word
Contains(message, word) == includes(toLowerCase(message[2]), word)

\* the tool the claim names for the message
ToolFor(message) ==
  IF \/ Contains(message, <<"f", "o", "r", "e", "c", "a", "s", "t">>)
     \/ Contains(message, <<"w", "e", "e", "k">>)
     \/ Contains(message, <<"d", "a", "y", "s">>)
  THEN "get_forecast" ELSE "get_weather"

\* a request arrives: the city is asked for exactly when the message contains
\* 'weather', 'forecast' or 'temp'; no tool is invoked yet
ArrivalAsksCity(t) ==
  chat'[t].n = chat[t].n + 1 =>
    /\ chat'[t].pc = "awaitCity" <=>
         /\ chat'[t].message # UNDEFINED
         /\ \/ Contains(chat'[t].message, <<"w", "e", "a", "t", "h", "e", "r">>)
            \/ Contains(chat'[t].message, <<"f", "o", "r", "e", "c", "a", "s", "t">>)
            \/ Contains(chat'[t].message, <<"t", "e", "m", "p">>)
    /\ ncalls'[t] = ncalls[t]

\* the extraction settles: with a city, one callMCPTool invocation of the
\* tool for the message starts with that city; without, the handler asks for
\* the city and invokes nothing
ExtractionDecides(t) ==
  (chat[t].pc = "awaitCity" /\ chat'[t] # chat[t]) =>
    IF Truthy(chat'[t].city)
    THEN /\ chat'[t].pc = "awaitTool"
         /\ chat'[t].city \in {Str(c) : c \in Cities}
         /\ chat'[t].toolName = ToolFor(chat[t].message)
         /\ ncalls'[t] = ncalls[t] + 1
         /\ calls'[t].pc \in {"awaitInit", "awaitCall"}
    ELSE /\ chat'[t].pc = "responded" /\ chat'[t].body.kind = "needsCity"
         /\ chat'[t].toolName = ""
         /\ ncalls'[t] = ncalls[t] /\ calls'[t] = calls[t]

\* callMCPTool is invoked nowhere else in the handler
InvokedOnlyAfterExtraction(t) ==
  ncalls'[t] # ncalls[t] => chat[t].pc = "awaitCity" /\ ncalls'[t] = ncalls[t] + 1

====
